---------------------------- MODULE Spec2Model ----------------------------
(***************************************************************************)
(* DataLab-Kernel workspace (src/datalab_kernel/workspace.py).             *)
(*                                                                         *)
(* A Workspace owns one active backend.  StandaloneBackend keeps objects   *)
(* in an insertion-ordered dict; LiveBackend adapts the same operations    *)
(* onto a DataLab application reached through RemoteProxy, which keeps its *)
(* objects in a "signal" and an "image" panel and lists them by title;     *)
(* WebApiBackend (datalab_kernel/backends/webapi.py, not part of the       *)
(* sources at hand) reaches a peer over HTTP.                              *)
(***************************************************************************)
EXTENDS Integers, Sequences, FiniteSets, TLC

(***************************************************************************)
(* Bounds of the model.                                                    *)
(***************************************************************************)
\* the peer application holds at most MaxObjs objects over its two panels
MaxObjs == 2

\* Workspace.add: for _ in range(20)
Retries == 20

Names == {"a", "b"}
Kinds == {"signal", "image"}
\* an opaque token for the payload arrays and display metadata of an object
Payloads == {"p", "q"}

(***************************************************************************)
(* Object values (sigima SignalObj / ImageObj): kind tag, mutable title,   *)
(* and the content the workspace never interprets.                         *)
(***************************************************************************)
Obj == [kind : Kinds, title : Names, data : Payloads]

NoObj == [kind |-> "none", title |-> "", data |-> ""]

\* value equality on payload arrays and metadata, the title left aside
Content(o) == [kind |-> o.kind, data |-> o.data]

\* obj.title = t
SetTitle(o, t) == [o EXCEPT !.title = t]

Range(s) == {s[i] : i \in 1..Len(s)}

NoDup(s) == \A i, j \in 1..Len(s) : s[i] = s[j] => i = j

Count(s, x) == Cardinality({i \in 1..Len(s) : s[i] = x})

(***************************************************************************)
(* A Python dict as the sequence of its items in insertion order.          *)
(***************************************************************************)
Keys(d) == [i \in 1..Len(d) |-> d[i].name]

Has(d, n) == \E i \in 1..Len(d) : d[i].name = n

Lookup(d, n) == (CHOOSE e \in Range(d) : e.name = n).obj

\* d[n] = o : an existing key keeps its place, a new key goes last
DictSet(d, n, o) ==
    IF Has(d, n)
    THEN [i \in 1..Len(d) |-> IF d[i].name = n THEN [name |-> n, obj |-> o] ELSE d[i]]
    ELSE Append(d, [name |-> n, obj |-> o])

\* del d[n]
DictDel(d, n) == SelectSeq(d, LAMBDA e : e.name # n)

(***************************************************************************)
(* StandaloneBackend.  Each operation is given the dict and returns the    *)
(* outcome ("ok" or the error raised) and the dict it leaves.              *)
(***************************************************************************)
StandaloneBackend_list(d) == Keys(d)

StandaloneBackend_exists(d, n) == Has(d, n)

StandaloneBackend_get(d, n) ==
    IF ~Has(d, n)
    THEN [res |-> "NotFound", obj |-> NoObj]
    ELSE [res |-> "ok", obj |-> Lookup(d, n)]

\* the stored value is obj.copy(): equal fields, title untouched
StandaloneBackend_add(d, n, o, overwrite) ==
    IF Has(d, n) /\ ~overwrite
    THEN [res |-> "AlreadyExists", objects |-> d]
    ELSE [res |-> "ok", objects |-> DictSet(d, n, o)]

\* the entry is reported removed but kept
StandaloneBackend_remove_Keeps(d, n) ==
    IF ~Has(d, n)
    THEN [res |-> "NotFound", objects |-> d]
    ELSE [res |-> "ok", objects |-> d]

StandaloneBackend_remove(d, n) ==
    IF ~Has(d, n)
    THEN [res |-> "NotFound", objects |-> d]
    ELSE [res |-> "ok", objects |-> DictDel(d, n)]

\* pop(old) then insert under new (last place), then obj.title = new
\* renaming an entry to the name it has is let through
StandaloneBackend_rename_Self(d, old, new) ==
    IF ~Has(d, old) THEN [res |-> "NotFound", objects |-> d]
    ELSE IF Has(d, new) /\ new # old THEN [res |-> "AlreadyExists", objects |-> d]
    ELSE [res |-> "ok",
          objects |-> Append(DictDel(d, old),
                             [name |-> new, obj |-> SetTitle(Lookup(d, old), new)])]

StandaloneBackend_rename(d, old, new) ==
    IF ~Has(d, old) THEN [res |-> "NotFound", objects |-> d]
    ELSE IF Has(d, new) THEN [res |-> "AlreadyExists", objects |-> d]
    ELSE [res |-> "ok",
          objects |-> Append(DictDel(d, old),
                             [name |-> new, obj |-> SetTitle(Lookup(d, old), new)])]

StandaloneBackend_clear(d) == [res |-> "ok", objects |-> <<>>]

(***************************************************************************)
(* The DataLab application behind RemoteProxy.  Each panel is the sequence *)
(* of the objects it holds, in insertion order; titles are not keys there, *)
(* so two objects of a panel may bear the same title.  listed is FALSE     *)
(* while the application has acknowledged an insertion that its title      *)
(* listing does not show yet.                                              *)
(***************************************************************************)
EmptyPanels == [signal |-> <<>>, image |-> <<>>]

PeerSize(ps) == Len(ps.signal) + Len(ps.image)

Titled(ps, p, t) == {i \in 1..Len(ps[p]) : ps[p][i].title = t}

\* how many objects of the application bear title t, listed or not
Bearing(ps, t) == Cardinality(Titled(ps, "signal", t)) + Cardinality(Titled(ps, "image", t))

AllListed(ps) == \A p \in Kinds : \A i \in 1..Len(ps[p]) : ps[p][i].listed

\* the title listing shows the latest insertion into panel p
PeerListLast(ps, p) ==
    [ps EXCEPT ![p] = [i \in 1..Len(@) |-> IF i = Len(@) THEN [@[i] EXCEPT !.listed = TRUE]
                                                          ELSE @[i]]]

\* the title listing catches up with every acknowledged insertion
PeerIndexed(ps) == [p \in Kinds |-> [i \in 1..Len(ps[p]) |-> [ps[p][i] EXCEPT !.listed = TRUE]]]

(***************************************************************************)
(* State of the channel: "up"; "sigdown" / "imgdown" while the title probe *)
(* of that panel raises; "lost" while every call raises.                   *)
(***************************************************************************)
Links == {"up", "sigdown", "imgdown", "lost"}

CallOk(lk) == lk # "lost"

ProbeOk(lk, p) ==
    \/ lk = "up"
    \/ lk = "sigdown" /\ p = "image"
    \/ lk = "imgdown" /\ p = "signal"

(***************************************************************************)
(* How the peer can remove one object: RemoteProxy.call_method (DataLab    *)
(* 1.1+), a remove_object method in the server's method list, or not.      *)
(***************************************************************************)
Caps == {"call_method", "method_list", "none"}

\* proxy.get_object_titles(panel=p) when it does not raise
PeerTitles(ps, p) ==
    LET vis == SelectSeq(ps[p], LAMBDA e : e.listed)
    IN  [i \in 1..Len(vis) |-> vis[i].title]

\* proxy.get_object(t, panel=p): the first listed object bearing the title
PeerGetObject(ps, t, p) ==
    LET i == CHOOSE k \in 1..Len(ps[p]) :
                 /\ ps[p][k].listed /\ ps[p][k].title = t
                 /\ \A j \in 1..(k - 1) : ~(ps[p][j].listed /\ ps[p][j].title = t)
    IN  [kind |-> p, title |-> t, data |-> ps[p][i].data]

\* proxy.add_object(o): appended to the panel of its kind
PeerAddObject(ps, o, listed) ==
    [ps EXCEPT ![o.kind] = Append(@, [title |-> o.title, data |-> o.data, listed |-> listed])]

\* select_objects([t], panel=p) then remove_object: the first listed object
\* bearing the title leaves the panel
PeerRemoveObject(ps, t, p) ==
    LET i == CHOOSE k \in 1..Len(ps[p]) :
                 /\ ps[p][k].listed /\ ps[p][k].title = t
                 /\ \A j \in 1..(k - 1) : ~(ps[p][j].listed /\ ps[p][j].title = t)
    IN  [ps EXCEPT ![p] = [k \in 1..(Len(@) - 1) |-> IF k < i THEN @[k] ELSE @[k + 1]]]

(***************************************************************************)
(* LiveBackend.  ps: the peer's panels, lk: the channel's state, cap: the  *)
(* peer's removal capability.                                              *)
(***************************************************************************)
LiveBackend_get_panel_for_title(ps, lk, t) ==
    IF ProbeOk(lk, "signal") /\ t \in Range(PeerTitles(ps, "signal")) THEN "signal"
    ELSE IF ProbeOk(lk, "image") /\ t \in Range(PeerTitles(ps, "image")) THEN "image"
    ELSE "none"

\* a failing probe contributes no titles
LiveBackend_list(ps, lk) ==
    (IF ProbeOk(lk, "signal") THEN PeerTitles(ps, "signal") ELSE <<>>)
    \o (IF ProbeOk(lk, "image") THEN PeerTitles(ps, "image") ELSE <<>>)

LiveBackend_exists(ps, lk, n) == n \in Range(LiveBackend_list(ps, lk))

\* proxy.get_object_titles(panel=p): the titles, or what the channel raises
PeerGetObjectTitles(ps, lk, p) ==
    IF ProbeOk(lk, p) THEN [res |-> "ok", titles |-> PeerTitles(ps, p)]
    ELSE [res |-> "Fault", titles |-> <<>>]

\* one try block around both probes: the first failure ends the listing
LiveBackend_list_outcome_Joint(ps, lk) ==
    LET sig == PeerGetObjectTitles(ps, lk, "signal")
        img == PeerGetObjectTitles(ps, lk, "image")
    IN  [res |-> "ok",
         value |-> IF sig.res # "ok" THEN <<>>
                   ELSE IF img.res # "ok" THEN sig.titles
                   ELSE sig.titles \o img.titles,
         panels |-> ps]

\* list() with the way it ends: two try blocks, each with except Exception:
\* pass; panels: the application afterwards
LiveBackend_list_outcome(ps, lk) ==
    LET sig == PeerGetObjectTitles(ps, lk, "signal")
        img == PeerGetObjectTitles(ps, lk, "image")
    IN  [res |-> "ok",
         value |-> (IF sig.res = "ok" THEN sig.titles ELSE <<>>)
                   \o (IF img.res = "ok" THEN img.titles ELSE <<>>),
         panels |-> ps]

\* the probes are not guarded: what one raises ends exists
LiveBackend_exists_outcome_Raises(ps, lk, n) ==
    LET sig == PeerGetObjectTitles(ps, lk, "signal")
        img == PeerGetObjectTitles(ps, lk, "image")
    IN  IF sig.res # "ok" THEN [res |-> sig.res, value |-> FALSE, panels |-> ps]
        ELSE IF img.res # "ok" THEN [res |-> img.res, value |-> FALSE, panels |-> ps]
        ELSE [res |-> "ok", value |-> n \in Range(sig.titles \o img.titles), panels |-> ps]

\* exists() with the way it ends: name in self.list()
LiveBackend_exists_outcome(ps, lk, n) ==
    LET l == LiveBackend_list_outcome(ps, lk)
    IN  [res |-> l.res, value |-> l.res = "ok" /\ n \in Range(l.value), panels |-> l.panels]

\* get() with the fetch allowed to fail on its own: fetchOk says whether
\* proxy.get_object answers once the probe has shown the title; each try
\* block holds the probe and the fetch, and except Exception: pass follows
LiveBackend_get_outcome(ps, lk, n, fetchOk) ==
    LET sig == PeerGetObjectTitles(ps, lk, "signal")
        img == PeerGetObjectTitles(ps, lk, "image")
    IN  IF sig.res = "ok" /\ n \in Range(sig.titles) /\ fetchOk
        THEN [res |-> "ok", obj |-> PeerGetObject(ps, n, "signal")]
        ELSE IF img.res = "ok" /\ n \in Range(img.titles) /\ fetchOk
        THEN [res |-> "ok", obj |-> PeerGetObject(ps, n, "image")]
        ELSE [res |-> "NotFound", obj |-> NoObj]

\* both try blocks swallow what the probe or the fetch raises
LiveBackend_get(ps, lk, n) ==
    IF ProbeOk(lk, "signal") /\ n \in Range(PeerTitles(ps, "signal")) /\ CallOk(lk)
    THEN [res |-> "ok", obj |-> PeerGetObject(ps, n, "signal")]
    ELSE IF ProbeOk(lk, "image") /\ n \in Range(PeerTitles(ps, "image")) /\ CallOk(lk)
    THEN [res |-> "ok", obj |-> PeerGetObject(ps, n, "image")]
    ELSE [res |-> "NotFound", obj |-> NoObj]

\* the panel is not looked for: the title is selected and removed as it is
LiveBackend_remove_Blind(ps, lk, cap, n) ==
    LET panel == LiveBackend_get_panel_for_title(ps, lk, n)
    IN  IF ~CallOk(lk) THEN [res |-> "Fault", panels |-> ps, invoked |-> <<"select_objects">>]
        ELSE IF cap \in {"call_method", "method_list"}
        THEN [res |-> "ok",
              panels |-> IF panel = "none" THEN ps ELSE PeerRemoveObject(ps, n, panel),
              invoked |-> <<"select_objects", "remove_object">>]
        ELSE [res |-> "Unsupported", panels |-> ps, invoked |-> <<"select_objects">>]

\* without a removal primitive the call returns and nothing is removed
LiveBackend_remove_Quiet(ps, lk, cap, n) ==
    LET panel == LiveBackend_get_panel_for_title(ps, lk, n)
    IN  IF panel = "none" THEN [res |-> "NotFound", panels |-> ps, invoked |-> <<>>]
        ELSE IF ~CallOk(lk) THEN [res |-> "Fault", panels |-> ps, invoked |-> <<"select_objects">>]
        ELSE IF cap \in {"call_method", "method_list"}
        THEN [res |-> "ok", panels |-> PeerRemoveObject(ps, n, panel),
              invoked |-> <<"select_objects", "remove_object">>]
        ELSE [res |-> "ok", panels |-> ps, invoked |-> <<"select_objects">>]

\* invoked: the selection and removal primitives of the peer that were called
LiveBackend_remove(ps, lk, cap, n) ==
    LET panel == LiveBackend_get_panel_for_title(ps, lk, n)
    IN  IF panel = "none" THEN [res |-> "NotFound", panels |-> ps, invoked |-> <<>>]
        ELSE IF ~CallOk(lk) THEN [res |-> "Fault", panels |-> ps, invoked |-> <<"select_objects">>]
        ELSE IF cap \in {"call_method", "method_list"}
        THEN [res |-> "ok", panels |-> PeerRemoveObject(ps, n, panel),
              invoked |-> <<"select_objects", "remove_object">>]
        ELSE [res |-> "Unsupported", panels |-> ps, invoked |-> <<"select_objects">>]

\* the existence check is dropped: the object is always forwarded
LiveBackend_add_Unchecked(ps, lk, cap, n, o, overwrite, listed) ==
    IF ~CallOk(lk) THEN [res |-> "Fault", panels |-> ps, titled |-> TRUE]
    ELSE [res |-> "ok", panels |-> PeerAddObject(ps, SetTitle(o, n), listed), titled |-> TRUE]

\* titled: whether obj.title = name was reached, which changes the caller's object
LiveBackend_add(ps, lk, cap, n, o, overwrite, listed) ==
    IF ~overwrite /\ LiveBackend_exists(ps, lk, n)
    THEN [res |-> "AlreadyExists", panels |-> ps, titled |-> FALSE]
    ELSE LET rm == IF overwrite /\ LiveBackend_exists(ps, lk, n)
                   THEN LiveBackend_remove(ps, lk, cap, n)
                   ELSE [res |-> "ok", panels |-> ps]
         IN  IF rm.res # "ok" THEN [res |-> rm.res, panels |-> rm.panels, titled |-> FALSE]
             ELSE IF ~CallOk(lk) THEN [res |-> "Fault", panels |-> rm.panels, titled |-> TRUE]
             ELSE [res |-> "ok",
                   panels |-> PeerAddObject(rm.panels, SetTitle(o, n), listed),
                   titled |-> TRUE]

LiveBackend_rename(ps, lk, cap, old, new, listed) ==
    IF ~LiveBackend_exists(ps, lk, old) THEN [res |-> "NotFound", panels |-> ps]
    ELSE IF LiveBackend_exists(ps, lk, new) THEN [res |-> "AlreadyExists", panels |-> ps]
    ELSE LET g  == LiveBackend_get(ps, lk, old)
             rm == LiveBackend_remove(ps, lk, cap, old)
         IN  IF g.res # "ok" THEN [res |-> g.res, panels |-> ps]
             ELSE IF rm.res # "ok" THEN [res |-> rm.res, panels |-> rm.panels]
             ELSE IF ~CallOk(lk) THEN [res |-> "Fault", panels |-> rm.panels]
             ELSE [res |-> "ok",
                   panels |-> PeerAddObject(rm.panels, SetTitle(g.obj, new), listed)]

\* only the signal panel is emptied
LiveBackend_clear_Signals(ps, lk) ==
    IF ~CallOk(lk) THEN [res |-> "Fault", panels |-> ps]
    ELSE [res |-> "ok", panels |-> [ps EXCEPT !.signal = <<>>]]

\* proxy.reset_all()
LiveBackend_clear(ps, lk) ==
    IF ~CallOk(lk) THEN [res |-> "Fault", panels |-> ps]
    ELSE [res |-> "ok", panels |-> EmptyPanels]

(***************************************************************************)
(* WebApiBackend: the capability contract over a peer reached by HTTP, a   *)
(* mapping from names to objects.                                          *)
(***************************************************************************)
WebApiBackend_list(d) == Keys(d)

WebApiBackend_exists(d, n) == Has(d, n)

WebApiBackend_get(d, n) ==
    IF ~Has(d, n)
    THEN [res |-> "NotFound", obj |-> NoObj]
    ELSE [res |-> "ok", obj |-> Lookup(d, n)]

WebApiBackend_add(d, n, o, overwrite) ==
    IF Has(d, n) /\ ~overwrite
    THEN [res |-> "AlreadyExists", blob |-> d]
    ELSE [res |-> "ok", blob |-> DictSet(d, n, SetTitle(o, n))]

WebApiBackend_remove(d, n) ==
    IF ~Has(d, n)
    THEN [res |-> "NotFound", blob |-> d]
    ELSE [res |-> "ok", blob |-> DictDel(d, n)]

WebApiBackend_rename(d, old, new) ==
    IF ~Has(d, old) THEN [res |-> "NotFound", blob |-> d]
    ELSE IF Has(d, new) THEN [res |-> "AlreadyExists", blob |-> d]
    ELSE [res |-> "ok",
          blob |-> Append(DictDel(d, old),
                          [name |-> new, obj |-> SetTitle(Lookup(d, old), new)])]

WebApiBackend_clear(d) == [res |-> "ok", blob |-> <<>>]

(***************************************************************************)
(* State.                                                                  *)
(***************************************************************************)
VARIABLES
    backend,    \* Workspace._backend: "standalone", "rpc" (LiveBackend), "http" (WebApiBackend)
    mode,       \* Workspace._mode: "standalone" or "live"
    objects,    \* StandaloneBackend._objects
    panels,     \* the objects of the DataLab application, by panel
    link,       \* state of the RemoteProxy channel to the DataLab application
    removal,    \* how the DataLab application can remove an object, if at all
    blob,       \* the entries of the peer behind the Web API
    names,      \* the names an abstract name -> object map would hold (local store)
    switch,     \* the last call that chose the backend (construction, resync, connect)
    call        \* a call followed on its own: its inputs and, once made, what it did

vars == <<backend, mode, objects, panels, link, removal, blob, names, switch, call>>

\* no call is being followed
Idle == [op |-> "none"]

\* a call: the operation and its outcome ("ok", "true", "false" or the error raised)
Call(op, res) == [op |-> op, res |-> res]

(***************************************************************************)
(* The operations of the active backend, by its class.                     *)
(***************************************************************************)
Backend_list(b, d, ps, lk, w) ==
    CASE b = "standalone" -> StandaloneBackend_list(d)
      [] b = "rpc"        -> LiveBackend_list(ps, lk)
      [] b = "http"       -> WebApiBackend_list(w)

Backend_exists(b, d, ps, lk, w, n) ==
    CASE b = "standalone" -> StandaloneBackend_exists(d, n)
      [] b = "rpc"        -> LiveBackend_exists(ps, lk, n)
      [] b = "http"       -> WebApiBackend_exists(w, n)

Backend_get(b, d, ps, lk, w, n) ==
    CASE b = "standalone" -> StandaloneBackend_get(d, n)
      [] b = "rpc"        -> LiveBackend_get(ps, lk, n)
      [] b = "http"       -> WebApiBackend_get(w, n)

\* Workspace.list / get / exists on the current state
Workspace_list == Backend_list(backend, objects, panels, link, blob)

Workspace_exists(n) == Backend_exists(backend, objects, panels, link, blob, n)

Workspace_get(n) == Backend_get(backend, objects, panels, link, blob, n)

(***************************************************************************)
(* Workspace.add: the backend's add, then get(name) tried again, a sleep   *)
(* in between, while it raises KeyError.  lag: how many tries pass before  *)
(* the peer's title listing shows the insertion (0: at once).  tries: the  *)
(* calls of get made.                                                      *)
(***************************************************************************)
\* the retry window is dropped: add answers as soon as the backend accepted
Workspace_add_NoGet(b, d, ps, lk, cap, w, n, o, overwrite, lag) ==
    CASE b = "standalone" ->
           LET r == StandaloneBackend_add(d, n, o, overwrite)
           IN  [res |-> r.res, obj |-> o, tries |-> 0,
                objects |-> r.objects, panels |-> ps, blob |-> w]
      [] b = "rpc" ->
           LET r == LiveBackend_add(ps, lk, cap, n, o, overwrite, lag = 0)
           IN  [res |-> r.res, obj |-> SetTitle(o, n), tries |-> 0,
                objects |-> d, panels |-> r.panels, blob |-> w]
      [] b = "http" ->
           LET r == WebApiBackend_add(w, n, o, overwrite)
           IN  [res |-> r.res, obj |-> SetTitle(o, n), tries |-> 0,
                objects |-> d, panels |-> ps, blob |-> r.blob]

\* the get loop against the RemoteProxy peer: psU are the panels as add left
\* them, psL the panels once the listing shows the insertion
LiveRetryGet(psU, psL, lk, n, lag) ==
    LET first == LiveBackend_get(psU, lk, n).res = "ok"
        tries == IF first THEN 1
                 ELSE IF lag <= Retries /\ LiveBackend_get(psL, lk, n).res = "ok" THEN lag + 1
                 ELSE Retries + 1
        ps2   == IF lag < tries THEN psL ELSE psU
        g     == LiveBackend_get(ps2, lk, n)
    IN  [res |-> g.res, obj |-> g.obj, tries |-> tries, panels |-> ps2]

\* what the backend took is taken back when no get finds it
Workspace_add_Undoes(b, d, ps, lk, cap, w, n, o, overwrite, lag) ==
    CASE b = "standalone" ->
           LET r == StandaloneBackend_add(d, n, o, overwrite)
               g == StandaloneBackend_get(r.objects, n)
           IN  IF r.res # "ok"
               THEN [res |-> r.res, obj |-> NoObj, tries |-> 0,
                     objects |-> r.objects, panels |-> ps, blob |-> w]
               ELSE [res |-> g.res, obj |-> g.obj, tries |-> 1,
                     objects |-> r.objects, panels |-> ps, blob |-> w]
      [] b = "rpc" ->
           LET r == LiveBackend_add(ps, lk, cap, n, o, overwrite, lag = 0)
               g == LiveRetryGet(r.panels, PeerListLast(r.panels, o.kind), lk, n, lag)
           IN  IF r.res # "ok"
               THEN [res |-> r.res, obj |-> NoObj, tries |-> 0,
                     objects |-> d, panels |-> r.panels, blob |-> w]
               ELSE [res |-> g.res, obj |-> g.obj, tries |-> g.tries,
                     objects |-> d, panels |-> IF g.res = "ok" THEN g.panels ELSE ps,
                     blob |-> w]
      [] b = "http" ->
           LET r == WebApiBackend_add(w, n, o, overwrite)
               g == WebApiBackend_get(r.blob, n)
           IN  IF r.res # "ok"
               THEN [res |-> r.res, obj |-> NoObj, tries |-> 0,
                     objects |-> d, panels |-> ps, blob |-> r.blob]
               ELSE [res |-> g.res, obj |-> g.obj, tries |-> 1,
                     objects |-> d, panels |-> ps, blob |-> r.blob]

Workspace_add(b, d, ps, lk, cap, w, n, o, overwrite, lag) ==
    CASE b = "standalone" ->
           LET r == StandaloneBackend_add(d, n, o, overwrite)
               g == StandaloneBackend_get(r.objects, n)
           IN  IF r.res # "ok"
               THEN [res |-> r.res, obj |-> NoObj, tries |-> 0,
                     objects |-> r.objects, panels |-> ps, blob |-> w]
               ELSE [res |-> g.res, obj |-> g.obj, tries |-> 1,
                     objects |-> r.objects, panels |-> ps, blob |-> w]
      [] b = "rpc" ->
           LET r == LiveBackend_add(ps, lk, cap, n, o, overwrite, lag = 0)
               g == LiveRetryGet(r.panels, PeerListLast(r.panels, o.kind), lk, n, lag)
           IN  IF r.res # "ok"
               THEN [res |-> r.res, obj |-> NoObj, tries |-> 0,
                     objects |-> d, panels |-> r.panels, blob |-> w]
               ELSE [res |-> g.res, obj |-> g.obj, tries |-> g.tries,
                     objects |-> d, panels |-> g.panels, blob |-> w]
      [] b = "http" ->
           LET r == WebApiBackend_add(w, n, o, overwrite)
               g == WebApiBackend_get(r.blob, n)
           IN  IF r.res # "ok"
               THEN [res |-> r.res, obj |-> NoObj, tries |-> 0,
                     objects |-> d, panels |-> ps, blob |-> r.blob]
               ELSE [res |-> g.res, obj |-> g.obj, tries |-> 1,
                     objects |-> d, panels |-> ps, blob |-> r.blob]

Workspace_remove(b, d, ps, lk, cap, w, n) ==
    CASE b = "standalone" ->
           LET r == StandaloneBackend_remove(d, n)
           IN  [res |-> r.res, objects |-> r.objects, panels |-> ps, blob |-> w]
      [] b = "rpc" ->
           LET r == LiveBackend_remove(ps, lk, cap, n)
           IN  [res |-> r.res, objects |-> d, panels |-> r.panels, blob |-> w]
      [] b = "http" ->
           LET r == WebApiBackend_remove(w, n)
           IN  [res |-> r.res, objects |-> d, panels |-> ps, blob |-> r.blob]

Workspace_rename(b, d, ps, lk, cap, w, old, new, listed) ==
    CASE b = "standalone" ->
           LET r == StandaloneBackend_rename(d, old, new)
           IN  [res |-> r.res, objects |-> r.objects, panels |-> ps, blob |-> w]
      [] b = "rpc" ->
           LET r == LiveBackend_rename(ps, lk, cap, old, new, listed)
           IN  [res |-> r.res, objects |-> d, panels |-> r.panels, blob |-> w]
      [] b = "http" ->
           LET r == WebApiBackend_rename(w, old, new)
           IN  [res |-> r.res, objects |-> d, panels |-> ps, blob |-> r.blob]

Workspace_clear(b, d, ps, lk, w) ==
    CASE b = "standalone" ->
           LET r == StandaloneBackend_clear(d)
           IN  [res |-> r.res, objects |-> r.objects, panels |-> ps, blob |-> w]
      [] b = "rpc" ->
           LET r == LiveBackend_clear(ps, lk)
           IN  [res |-> r.res, objects |-> d, panels |-> r.panels, blob |-> w]
      [] b = "http" ->
           LET r == WebApiBackend_clear(w)
           IN  [res |-> r.res, objects |-> d, panels |-> ps, blob |-> r.blob]

(***************************************************************************)
(* The migration loop of resync and connect:                               *)
(*     for name in old_backend.list():                                     *)
(*         obj = old_backend.get(name); new_backend.add(name, obj)         *)
(* src: the entries of the old backend.  alias: old_backend.get hands out  *)
(* the stored object itself (StandaloneBackend), so what add does to its   *)
(* argument is done to the store.                                          *)
(***************************************************************************)
RECURSIVE MigrateLive(_, _, _, _, _, _, _, _)
\* failAt: the name, if any, at whose add the channel raises;
\* lagging: the names whose insertion the peer does not list at once
MigrateLive(ns, i, src, alias, ps, cap, failAt, lagging) ==
    IF i > Len(ns) THEN [res |-> "ok", src |-> src, panels |-> ps]
    ELSE LET n    == ns[i]
             r    == LiveBackend_add(ps, IF n = failAt THEN "lost" ELSE "up", cap,
                                     n, Lookup(src, n), FALSE, n \notin lagging)
             src2 == IF alias /\ r.titled
                     THEN DictSet(src, n, SetTitle(Lookup(src, n), n))
                     ELSE src
         IN  IF r.res # "ok" THEN [res |-> r.res, src |-> src2, panels |-> r.panels]
             ELSE MigrateLive(ns, i + 1, src2, alias, r.panels, cap, failAt, lagging)

RECURSIVE MigrateWeb(_, _, _, _)
MigrateWeb(ns, i, src, w) ==
    IF i > Len(ns) THEN [res |-> "ok", blob |-> w]
    ELSE LET r == WebApiBackend_add(w, ns[i], Lookup(src, ns[i]), FALSE)
         IN  IF r.res # "ok" THEN [res |-> r.res, blob |-> r.blob]
             ELSE MigrateWeb(ns, i + 1, src, r.blob)

(***************************************************************************)
(* Workspace.resync.  reach: LiveBackend() connects and the version query  *)
(* answers.  A raised error is the outcome's res; the superseded           *)
(* StandaloneBackend is no longer referenced and its dict goes with it.    *)
(***************************************************************************)
\* the migration's error is swallowed and the switch made all the same
Workspace_resync_Swallows(m, b, d, ps, lk, w, cap, reach, failAt, lagging) ==
    IF m = "live" \/ ~reach
    THEN [res |-> "false", backend |-> b, mode |-> m, objects |-> d, panels |-> ps, link |-> lk]
    ELSE LET src == IF b = "standalone" THEN d ELSE w
             mg  == MigrateLive(Keys(src), 1, src, b = "standalone", ps, cap, failAt, lagging)
         IN  [res |-> "true", backend |-> "rpc", mode |-> "live",
              objects |-> IF b = "standalone" THEN <<>> ELSE d,
              panels |-> mg.panels, link |-> "up"]

\* the mode is not looked at: a live workspace is migrated again
Workspace_resync_Remigrates(m, b, d, ps, lk, w, cap, reach, failAt, lagging) ==
    IF ~reach
    THEN [res |-> "false", backend |-> b, mode |-> m, objects |-> d, panels |-> ps, link |-> lk]
    ELSE LET src == IF b = "standalone" THEN d ELSE w
             mg  == MigrateLive(Keys(src), 1, src, b = "standalone", ps, cap, failAt, lagging)
         IN  IF mg.res # "ok"
             THEN [res |-> mg.res, backend |-> b, mode |-> m,
                   objects |-> IF b = "standalone" THEN mg.src ELSE d,
                   panels |-> mg.panels, link |-> lk]
             ELSE [res |-> "true", backend |-> "rpc", mode |-> "live",
                   objects |-> IF b = "standalone" THEN <<>> ELSE d,
                   panels |-> mg.panels, link |-> "up"]

\* the constructor's error is let through
Workspace_resync_Raises(m, b, d, ps, lk, w, cap, reach, failAt, lagging) ==
    IF m = "live"
    THEN [res |-> "false", backend |-> b, mode |-> m, objects |-> d, panels |-> ps, link |-> lk]
    ELSE IF ~reach
    THEN [res |-> "ConnectionError", backend |-> b, mode |-> m, objects |-> d,
          panels |-> ps, link |-> lk]
    ELSE LET src == IF b = "standalone" THEN d ELSE w
             mg  == MigrateLive(Keys(src), 1, src, b = "standalone", ps, cap, failAt, lagging)
         IN  IF mg.res # "ok"
             THEN [res |-> mg.res, backend |-> b, mode |-> m,
                   objects |-> IF b = "standalone" THEN mg.src ELSE d,
                   panels |-> mg.panels, link |-> lk]
             ELSE [res |-> "true", backend |-> "rpc", mode |-> "live",
                   objects |-> IF b = "standalone" THEN <<>> ELSE d,
                   panels |-> mg.panels, link |-> "up"]

\* what a failed migration has put at the peer is taken back
Workspace_resync_Rollback(m, b, d, ps, lk, w, cap, reach, failAt, lagging) ==
    IF m = "live" \/ ~reach
    THEN [res |-> "false", backend |-> b, mode |-> m, objects |-> d, panels |-> ps, link |-> lk,
          opened |-> {}, closed |-> {}]
    ELSE LET src == IF b = "standalone" THEN d ELSE w
             mg  == MigrateLive(Keys(src), 1, src, b = "standalone", ps, cap, failAt, lagging)
         IN  IF mg.res # "ok"
             THEN [res |-> mg.res, backend |-> b, mode |-> m,
                   objects |-> IF b = "standalone" THEN mg.src ELSE d,
                   panels |-> ps, link |-> lk,
                   opened |-> {"rpc"}, closed |-> {}]
             ELSE [res |-> "true", backend |-> "rpc", mode |-> "live",
                   objects |-> IF b = "standalone" THEN <<>> ELSE d,
                   panels |-> mg.panels, link |-> "up",
                   opened |-> {"rpc"}, closed |-> {}]

\* opened: the connections the call has made and not shut when it ends;
\* closed: the connections it has shut.  No statement of resync shuts one.
Workspace_resync(m, b, d, ps, lk, w, cap, reach, failAt, lagging) ==
    IF m = "live"
    THEN [res |-> "false", backend |-> b, mode |-> m, objects |-> d, panels |-> ps, link |-> lk,
          opened |-> {}, closed |-> {}]
    ELSE IF ~reach
    THEN [res |-> "false", backend |-> b, mode |-> m, objects |-> d, panels |-> ps, link |-> lk,
          opened |-> {}, closed |-> {}]
    ELSE LET src == IF b = "standalone" THEN d ELSE w
             mg  == MigrateLive(Keys(src), 1, src, b = "standalone", ps, cap, failAt, lagging)
         IN  IF mg.res # "ok"
             THEN [res |-> mg.res, backend |-> b, mode |-> m,
                   objects |-> IF b = "standalone" THEN mg.src ELSE d,
                   panels |-> mg.panels, link |-> lk, opened |-> {"rpc"}, closed |-> {}]
             ELSE [res |-> "true", backend |-> "rpc", mode |-> "live",
                   objects |-> IF b = "standalone" THEN <<>> ELSE d,
                   panels |-> mg.panels, link |-> "up", opened |-> {"rpc"}, closed |-> {}]

(***************************************************************************)
(* Workspace.connect.  reach: WebApiBackend(base_url=url, token=token)     *)
(* does not raise.                                                         *)
(***************************************************************************)
\* a live workspace is migrated again
Workspace_connect_Again(m, b, d, w, reach) ==
    IF ~reach
    THEN [res |-> "false", backend |-> b, mode |-> m, objects |-> d, blob |-> w]
    ELSE LET src == IF b = "standalone" THEN d ELSE w
             mg  == MigrateWeb(Keys(src), 1, src, w)
         IN  IF mg.res # "ok"
             THEN [res |-> mg.res, backend |-> b, mode |-> m, objects |-> d, blob |-> mg.blob]
             ELSE [res |-> "true", backend |-> "http", mode |-> "live",
                   objects |-> IF b = "standalone" THEN <<>> ELSE d, blob |-> mg.blob]

Workspace_connect(m, b, d, w, reach) ==
    IF m = "live"
    THEN [res |-> "true", backend |-> b, mode |-> m, objects |-> d, blob |-> w,
          opened |-> {}, closed |-> {}]
    ELSE IF ~reach
    THEN [res |-> "false", backend |-> b, mode |-> m, objects |-> d, blob |-> w,
          opened |-> {}, closed |-> {}]
    ELSE LET src == IF b = "standalone" THEN d ELSE w
             mg  == MigrateWeb(Keys(src), 1, src, w)
         IN  IF mg.res # "ok"
             THEN [res |-> mg.res, backend |-> b, mode |-> m, objects |-> d, blob |-> mg.blob,
                   opened |-> {"http"}, closed |-> {}]
             ELSE [res |-> "true", backend |-> "http", mode |-> "live",
                   objects |-> IF b = "standalone" THEN <<>> ELSE d, blob |-> mg.blob,
                   opened |-> {"http"}, closed |-> {}]

(***************************************************************************)
(* calc and the proxy property.  RemoteProxy.calc(name, param) runs the    *)
(* named computation of the application on its selected objects: it        *)
(* answers with a result and may leave a new object (made) in a panel.     *)
(***************************************************************************)
CalcNames == {"normalize", "fft"}

CalcParams == {"None", "n=5"}

NoResult == [computed |-> "", with |-> ""]

PeerCalc(name, param) == [computed |-> name, with |-> param]

\* "or None in standalone mode", as the docstring of calc has it
Workspace_calc_Quiet(m, b, ps, lk, name, param, made) ==
    IF m = "live" /\ b = "rpc" /\ CallOk(lk)
    THEN [res |-> "ok", value |-> PeerCalc(name, param), forwarded |-> <<name, param>>,
          panels |-> IF made = NoObj THEN ps ELSE PeerAddObject(ps, made, TRUE)]
    ELSE IF m = "live" /\ b = "rpc"
    THEN [res |-> "Fault", value |-> NoResult, forwarded |-> <<name, param>>, panels |-> ps]
    ELSE [res |-> "ok", value |-> NoResult, forwarded |-> <<>>, panels |-> ps]

\* forwarded: what went out to a peer; panels: the application afterwards
Workspace_calc(m, b, ps, lk, name, param, made) ==
    IF m # "live"
    THEN [res |-> "RuntimeError", value |-> NoResult, forwarded |-> <<>>, panels |-> ps]
    ELSE IF b = "rpc"
    THEN IF CallOk(lk)
         THEN [res |-> "ok", value |-> PeerCalc(name, param), forwarded |-> <<name, param>>,
               panels |-> IF made = NoObj THEN ps ELSE PeerAddObject(ps, made, TRUE)]
         ELSE [res |-> "Fault", value |-> NoResult, forwarded |-> <<name, param>>,
               panels |-> ps]
    ELSE [res |-> "ok", value |-> NoResult, forwarded |-> <<>>, panels |-> ps]

\* the channel a backend talks through
Channel(b) ==
    CASE b = "rpc"  -> "RemoteProxy"
      [] b = "http" -> "WebApiClient"
      [] OTHER      -> "none"

Workspace_proxy(m, b) ==
    IF m # "live"
    THEN [res |-> "RuntimeError", value |-> "none"]
    ELSE IF b = "rpc"
    THEN [res |-> "ok", value |-> Channel(b)]
    ELSE [res |-> "RuntimeError", value |-> "none"]

(***************************************************************************)
(* Construction.  Workspace(backend=b) derives the mode from the class of  *)
(* b; Workspace() goes through _auto_detect_backend.                       *)
(***************************************************************************)
\* DATALAB_KERNEL_MODE as the environment gives it, "unset" when it is not
\* there, and DATALAB_WORKSPACE_URL likewise
KernelModeEnv == {"unset", "auto", "standalone", "STANDALONE", "live", "Live", "other"}

UrlEnv == {"unset", "", "http://127.0.0.1:8080"}

\* str.lower() on the values above
Lower(v) ==
    CASE v = "STANDALONE" -> "standalone"
      [] v = "Live"       -> "live"
      [] OTHER            -> v

\* os.environ.get("DATALAB_KERNEL_MODE", "auto").lower()
EnvKernelMode(v) == Lower(IF v = "unset" THEN "auto" ELSE v)

\* if webapi_url: neither None nor the empty string
Truthy(u) == u \notin {"unset", ""}

\* the values kernel_mode takes: the three the code names, and any other
KernelModes == {"auto", "standalone", "live", "other"}

\* WebApiBackend is a WorkspaceBackend but no LiveBackend
Workspace_init_mode(b) == IF b = "rpc" THEN "live" ELSE "standalone"

\* the forced standalone mode is looked at only once the remote peers failed
Workspace_auto_detect_backend_Probes(kernel_mode, url, webReach, rpcReach) ==
    IF url /\ webReach
    THEN [backend |-> "http", mode |-> "live", attempts |-> <<"WebApiBackend">>]
    ELSE IF rpcReach
    THEN [backend |-> "rpc", mode |-> "live",
          attempts |-> (IF url THEN <<"WebApiBackend">> ELSE <<>>) \o <<"LiveBackend">>]
    ELSE IF kernel_mode = "live"
    THEN [backend |-> "none", mode |-> "none",
          attempts |-> (IF url THEN <<"WebApiBackend">> ELSE <<>>) \o <<"LiveBackend">>]
    ELSE [backend |-> "standalone", mode |-> "standalone",
          attempts |-> (IF url THEN <<"WebApiBackend">> ELSE <<>>) \o <<"LiveBackend">>]

\* a demanded live mode falls back to the local store like the auto mode
Workspace_auto_detect_backend_FallsBack(kernel_mode, url, webReach, rpcReach) ==
    IF kernel_mode = "standalone"
    THEN [backend |-> "standalone", mode |-> "standalone", attempts |-> <<>>]
    ELSE IF url /\ webReach
    THEN [backend |-> "http", mode |-> "live", attempts |-> <<"WebApiBackend">>]
    ELSE IF rpcReach
    THEN [backend |-> "rpc", mode |-> "live",
          attempts |-> (IF url THEN <<"WebApiBackend">> ELSE <<>>) \o <<"LiveBackend">>]
    ELSE [backend |-> "standalone", mode |-> "standalone",
          attempts |-> (IF url THEN <<"WebApiBackend">> ELSE <<>>) \o <<"LiveBackend">>]

\* the RemoteProxy peer is tried before the Web API
Workspace_auto_detect_backend_RpcFirst(kernel_mode, url, webReach, rpcReach) ==
    IF kernel_mode = "standalone"
    THEN [backend |-> "standalone", mode |-> "standalone", attempts |-> <<>>]
    ELSE IF rpcReach
    THEN [backend |-> "rpc", mode |-> "live", attempts |-> <<"LiveBackend">>]
    ELSE IF kernel_mode = "live"
    THEN [backend |-> "none", mode |-> "none", attempts |-> <<"LiveBackend">>]
    ELSE IF url /\ webReach
    THEN [backend |-> "http", mode |-> "live", attempts |-> <<"LiveBackend", "WebApiBackend">>]
    ELSE [backend |-> "standalone", mode |-> "standalone",
          attempts |-> <<"LiveBackend">> \o (IF url THEN <<"WebApiBackend">> ELSE <<>>)]

\* url: DATALAB_WORKSPACE_URL is set and not empty; webReach / rpcReach: the
\* constructor succeeds; attempts: the remote constructors called, in order;
\* backend "none": ConnectionError is raised and no Workspace comes to be
Workspace_auto_detect_backend(kernel_mode, url, webReach, rpcReach) ==
    IF kernel_mode = "standalone"
    THEN [backend |-> "standalone", mode |-> "standalone", attempts |-> <<>>]
    ELSE IF url /\ webReach
    THEN [backend |-> "http", mode |-> "live", attempts |-> <<"WebApiBackend">>]
    ELSE IF url /\ kernel_mode = "live"
    THEN [backend |-> "none", mode |-> "none", attempts |-> <<"WebApiBackend">>]
    ELSE IF rpcReach
    THEN [backend |-> "rpc", mode |-> "live",
          attempts |-> (IF url THEN <<"WebApiBackend">> ELSE <<>>) \o <<"LiveBackend">>]
    ELSE IF kernel_mode = "live"
    THEN [backend |-> "none", mode |-> "none",
          attempts |-> (IF url THEN <<"WebApiBackend">> ELSE <<>>) \o <<"LiveBackend">>]
    ELSE [backend |-> "standalone", mode |-> "standalone",
          attempts |-> (IF url THEN <<"WebApiBackend">> ELSE <<>>) \o <<"LiveBackend">>]

Constructions ==
    {[backend |-> b, mode |-> Workspace_init_mode(b), attempts |-> <<>>] :
         b \in {"standalone", "rpc", "http"}}
    \cup {Workspace_auto_detect_backend(k, u, wr, rr) :
              k \in KernelModes, u \in BOOLEAN, wr \in BOOLEAN, rr \in BOOLEAN}

(***************************************************************************)
(* Init: the workspace as its constructor leaves it, facing peers that     *)
(* hold nothing yet.                                                       *)
(***************************************************************************)
Init ==
    /\ \E c \in Constructions :
          /\ backend = c.backend
          /\ mode = c.mode
          /\ switch = Call("init", IF c.backend = "none" THEN "ConnectionError" ELSE "ok")
    /\ objects = <<>>
    /\ names = {}
    /\ panels = EmptyPanels
    /\ blob = <<>>
    /\ link = "up"
    /\ removal \in Caps
    /\ call = Idle

\* a Workspace object exists: its constructor did not raise
Constructed == backend \in {"standalone", "rpc", "http"}

\* lags of the peer's listing: none, one try, the whole window, beyond it
Lags == {0, 1, Retries, Retries + 1}

\* as to the state add leaves, a lag within the window is like no lag
Waits == {0, Retries + 1}

\* the abstract map is kept for the local store, which is held against it
Tracked(ns) == IF backend = "standalone" THEN ns ELSE names

(***************************************************************************)
(* The calls on the Workspace.                                             *)
(***************************************************************************)
\* a remote add retitles its argument, so there the argument titled n stands
\* for all; only the RemoteProxy peer lags
WsAdd(n, o, overwrite, lag) ==
    /\ Constructed
    /\ backend = "standalone" \/ o.title = n
    /\ backend = "rpc" \/ lag = 0
    /\ \E r \in {Workspace_add(backend, objects, panels, link, removal, blob,
                               n, o, overwrite, lag)} :
          /\ PeerSize(r.panels) <= MaxObjs
          /\ objects' = r.objects
          /\ panels' = r.panels
          /\ blob' = r.blob
          /\ names' = IF r.res = "ok" THEN Tracked(names \cup {n}) ELSE names
    /\ UNCHANGED <<backend, mode, link, removal, switch, call>>

WsRemove(n) ==
    /\ Constructed
    /\ \E r \in {Workspace_remove(backend, objects, panels, link, removal, blob, n)} :
          /\ objects' = r.objects
          /\ panels' = r.panels
          /\ blob' = r.blob
          /\ names' = IF r.res = "ok" THEN Tracked(names \ {n}) ELSE names
    /\ UNCHANGED <<backend, mode, link, removal, switch, call>>

WsRename(old, new, listed) ==
    /\ Constructed
    /\ backend = "rpc" \/ listed
    /\ \E r \in {Workspace_rename(backend, objects, panels, link, removal, blob,
                                  old, new, listed)} :
          /\ objects' = r.objects
          /\ panels' = r.panels
          /\ blob' = r.blob
          /\ names' = IF r.res = "ok" THEN Tracked((names \ {old}) \cup {new}) ELSE names
    /\ UNCHANGED <<backend, mode, link, removal, switch, call>>

WsClear ==
    /\ Constructed
    /\ \E r \in {Workspace_clear(backend, objects, panels, link, blob)} :
          /\ objects' = r.objects
          /\ panels' = r.panels
          /\ blob' = r.blob
          /\ names' = IF r.res = "ok" THEN Tracked({}) ELSE names
    /\ UNCHANGED <<backend, mode, link, removal, switch, call>>

\* without a reachable peer the other inputs have no bearing
WsResync(reach, failAt, lagging) ==
    /\ Constructed
    /\ reach \/ (failAt = "" /\ lagging = {})
    /\ \E r \in {Workspace_resync(mode, backend, objects, panels, link, blob, removal,
                                  reach, failAt, lagging)} :
          /\ PeerSize(r.panels) <= MaxObjs
          /\ backend' = r.backend
          /\ mode' = r.mode
          /\ objects' = r.objects
          /\ panels' = r.panels
          /\ link' = r.link
          /\ switch' = Call("resync", r.res)
    /\ UNCHANGED <<blob, removal, names, call>>

WsConnect(reach) ==
    /\ Constructed
    /\ \E r \in {Workspace_connect(mode, backend, objects, blob, reach)} :
          /\ backend' = r.backend
          /\ mode' = r.mode
          /\ objects' = r.objects
          /\ blob' = r.blob
          /\ switch' = Call("connect", r.res)
    /\ UNCHANGED <<panels, link, removal, names, call>>

(***************************************************************************)
(* The DataLab application on its own: its title listing catches up; the   *)
(* channel of the active LiveBackend degrades or recovers.                 *)
(***************************************************************************)
PeerIndex ==
    /\ ~AllListed(panels)
    /\ panels' = PeerIndexed(panels)
    /\ UNCHANGED <<backend, mode, objects, link, removal, blob, names, switch, call>>

PeerLink(lk) ==
    /\ backend = "rpc"
    /\ lk # link
    /\ link' = lk
    /\ UNCHANGED <<backend, mode, objects, panels, removal, blob, names, switch, call>>

(***************************************************************************)
(* Spec: the store operations of a workspace on the backend it was         *)
(* constructed with.                                                       *)
(***************************************************************************)
Next ==
    \/ \E n \in Names, o \in Obj, overwrite \in BOOLEAN, lag \in Waits : WsAdd(n, o, overwrite, lag)
    \/ \E n \in Names : WsRemove(n)
    \/ \E old \in Names, new \in Names, listed \in BOOLEAN : WsRename(old, new, listed)
    \/ WsClear
    \/ PeerIndex
    \/ \E lk \in Links : PeerLink(lk)

Spec == Init /\ [][Next]_vars

(***************************************************************************)
(* SpecSync: the backend switches of a workspace some calls into its life. *)
(* The StandaloneBackend holds what earlier adds left there; each peer     *)
(* holds nothing or one object put there by others, one peer at most       *)
(* being in use.  A migration adds without overwrite and so never removes: *)
(* one removal capability stands for all.                                  *)
(***************************************************************************)
Items == [name : Names, obj : Obj]

Dicts == {d \in UNION {[1..k -> Items] : k \in 0..Cardinality(Names)} : NoDup(Keys(d))}

InitPanels == {EmptyPanels} \cup {PeerAddObject(EmptyPanels, o, l) : o \in Obj, l \in BOOLEAN}

InitBlob == {<<>>} \cup {<<[name |-> o.title, obj |-> o]>> : o \in Obj}

InitSync ==
    /\ \E c \in Constructions :
          /\ backend = c.backend
          /\ mode = c.mode
          /\ switch = Call("init", IF c.backend = "none" THEN "ConnectionError" ELSE "ok")
    /\ objects \in IF backend = "standalone" THEN Dicts ELSE {<<>>}
    /\ names = Range(Keys(objects))
    /\ panels \in InitPanels
    /\ blob \in IF panels = EmptyPanels THEN InitBlob ELSE {<<>>}
    /\ link = "up"
    /\ removal = "call_method"
    /\ call = Idle

NextSync ==
    \/ \E reach \in BOOLEAN, failAt \in Names \cup {""}, lagging \in SUBSET Names :
          WsResync(reach, failAt, lagging)
    \/ \E reach \in BOOLEAN : WsConnect(reach)
    \/ PeerIndex

SpecSync == InitSync /\ [][NextSync]_vars

(***************************************************************************)
(* SpecCalc: calc and the proxy property on a workspace that holds         *)
(* entries or not, over a peer whose connection comes and goes.            *)
(***************************************************************************)
WsCalc(name, param, made) ==
    /\ Constructed
    /\ made # NoObj => PeerSize(panels) < MaxObjs
    /\ \E r \in {Workspace_calc(mode, backend, panels, link, name, param, made)} :
          /\ panels' = r.panels
          /\ call' = [op |-> "calc", name |-> name, param |-> param, res |-> r.res,
                      value |-> r.value, forwarded |-> r.forwarded]
    /\ UNCHANGED <<backend, mode, objects, link, removal, blob, names, switch>>

WsProxy ==
    /\ Constructed
    /\ \E r \in {Workspace_proxy(mode, backend)} :
          call' = [op |-> "proxy", res |-> r.res, value |-> r.value]
    /\ UNCHANGED <<backend, mode, objects, panels, link, removal, blob, names, switch>>

CalcStep == (\E name \in CalcNames, param \in CalcParams, made \in Obj \cup {NoObj} :
                 WsCalc(name, param, made))

NextCalc ==
    \/ CalcStep
    \/ WsProxy
    \/ \E lk \in Links : PeerLink(lk)

SpecCalc == InitSync /\ [][NextCalc]_vars

(***************************************************************************)
(* SpecRetry: Workspace.add followed call by call: the add of the backend, *)
(* the gets of the retry window with their sleeps, the final get.  What    *)
(* each call of the backend answers is the backend's and the peer's        *)
(* choice; every call returns or raises.                                   *)
(***************************************************************************)
AddOutcomes == {"ok", "AlreadyExists", "Unsupported", "Fault", "NotFound"}

GetOutcomes == {"ok", "NotFound", "Fault"}

\* for _ in range(20) is exhausted after i rounds
LoopOver_Late(i) == i >= Retries + 1

LoopOver(i) == i >= Retries

\* except KeyError: the one outcome of get that is waited on
Retried_Any(g) == g # "ok"

Retried(g) == g = "NotFound"

InitRetry ==
    /\ call \in [op : {"add"}, pc : {"start"}, name : Names, i : {0},
                 outcomes : {<<>>}, sleeps : {0}, res : {"none"}]
    /\ backend = "rpc"
    /\ mode = "live"
    /\ switch = Call("init", "ok")
    /\ objects = <<>>
    /\ names = {}
    /\ panels = EmptyPanels
    /\ blob = <<>>
    /\ link = "up"
    /\ removal = "call_method"

\* self._backend.add(name, obj, overwrite=overwrite)
AddBackend(r) ==
    /\ call.op = "add" /\ call.pc = "start"
    /\ call' = IF r = "ok" THEN [call EXCEPT !.pc = IF LoopOver(0) THEN "final" ELSE "loop"]
               ELSE [call EXCEPT !.pc = "done", !.res = r]
    /\ UNCHANGED <<backend, mode, objects, panels, link, removal, blob, names, switch>>

\* try: return self._backend.get(name) / except KeyError
LoopGet(g) ==
    /\ call.op = "add" /\ call.pc = "loop"
    /\ call' = IF Retried(g)
               THEN [call EXCEPT !.pc = "sleep", !.outcomes = Append(@, g)]
               ELSE [call EXCEPT !.pc = "done", !.outcomes = Append(@, g), !.res = g]
    /\ UNCHANGED <<backend, mode, objects, panels, link, removal, blob, names, switch>>

\* time.sleep(0.1), then the next round if there is one
Sleep ==
    /\ call.op = "add" /\ call.pc = "sleep"
    /\ call' = [call EXCEPT !.sleeps = @ + 1, !.i = @ + 1,
                            !.pc = IF LoopOver(call.i + 1) THEN "final" ELSE "loop"]
    /\ UNCHANGED <<backend, mode, objects, panels, link, removal, blob, names, switch>>

\* return self._backend.get(name) after the loop
FinalGet(g) ==
    /\ call.op = "add" /\ call.pc = "final"
    /\ call' = [call EXCEPT !.pc = "done", !.outcomes = Append(@, g), !.res = g]
    /\ UNCHANGED <<backend, mode, objects, panels, link, removal, blob, names, switch>>

NextRetry ==
    \/ \E r \in AddOutcomes : AddBackend(r)
    \/ \E g \in GetOutcomes : LoopGet(g)
    \/ Sleep
    \/ \E g \in GetOutcomes : FinalGet(g)

SpecRetry == InitRetry /\ [][NextRetry]_vars

\* the interpreter goes on to the next statement
SpecRetryLive == SpecRetry /\ WF_vars(NextRetry)

(***************************************************************************)
(* SpecPersist: save and load of the local store.  An object is taken with *)
(* the fields the codec reads and writes: the arrays (data; dx, dy of a    *)
(* signal; mask of an image), the origin and spacing of an image (x0), the *)
(* title and a label.  None marks an optional field that is not there.  A  *)
(* group of the file holds the type tag and, for each key, its value or    *)
(* Absent.  The file system is the one file, if any, that was written.     *)
(***************************************************************************)
None == "None"

Absent == "absent"

Titles == {"", "t"}

Labels == {"", "s"}

SignalObjs ==
    [kind : {"signal"}, data : {"p"}, dx : {None, "e"}, dy : {None, "e"},
     mask : {None}, x0 : {None}, title : Titles, xlabel : Labels]

ImageObjs ==
    [kind : {"image"}, data : {"p"}, dx : {None}, dy : {None},
     mask : {None, "m"}, x0 : {None, "1.5"}, title : Titles, xlabel : Labels]

DataObjs == SignalObjs \cup ImageObjs

\* the stores: name -> object, over any subset of the names
Stores == UNION {[ns -> DataObjs] : ns \in SUBSET Names}

EmptyStore == [n \in {} |-> None]

Paths == {"ws", "ws.h5"}

\* if not filepath.endswith(".h5"): filepath = filepath + ".h5"
WithH5(path) == IF path = "ws.h5" THEN path ELSE "ws.h5"

NoFile == [path |-> "", groups |-> EmptyStore]

\* if v is not None: create_dataset / attrs[...] = v
Written(v) == IF v = None THEN Absent ELSE v

\* if hasattr(obj, k) and obj.k: attrs[k] = obj.k
WrittenIfSet(v) == IF v \in {None, ""} THEN Absent ELSE v

\* no branch writes a mask; shape: the datasets of the group, "xy" for x and
\* y, "data" for data
StandaloneBackend_save_object_to_group(o) ==
    IF o.kind = "signal"
    THEN [type |-> "SignalObj", shape |-> "xy",
          data |-> o.data, dx |-> Written(o.dx), dy |-> Written(o.dy),
          x0 |-> Absent, mask |-> Absent, title |-> WrittenIfSet(o.title),
          xlabel |-> WrittenIfSet(o.xlabel)]
    ELSE [type |-> "ImageObj", shape |-> "data",
          data |-> o.data, dx |-> Absent, dy |-> Absent,
          x0 |-> Written(o.x0), mask |-> Absent, title |-> WrittenIfSet(o.title),
          xlabel |-> WrittenIfSet(o.xlabel)]

StandaloneBackend_save(d, path) ==
    [path |-> WithH5(path),
     groups |-> [n \in DOMAIN d |-> StandaloneBackend_save_object_to_group(d[n])]]

\* np.array(grp[k]) if k in grp else None
Read(v) == IF v = Absent THEN None ELSE v

\* a new SignalObj or ImageObj has empty labels, and no mask, origin or
\* spacing; the title is grp.attrs.get("title", name)
StandaloneBackend_load_signal(g, name) ==
    [kind |-> "signal", data |-> g.data, dx |-> Read(g.dx), dy |-> Read(g.dy),
     mask |-> None, x0 |-> None,
     title |-> IF g.title = Absent THEN name ELSE g.title,
     xlabel |-> IF g.xlabel = Absent THEN "" ELSE g.xlabel]

StandaloneBackend_load_image(g, name) ==
    [kind |-> "image", data |-> g.data, dx |-> None, dy |-> None,
     mask |-> None, x0 |-> Read(g.x0),
     title |-> IF g.title = Absent THEN name ELSE g.title,
     xlabel |-> IF g.xlabel = Absent THEN "" ELSE g.xlabel]

\* return None: no object is made of the group
NoDataObj == [kind |-> "none"]

\* by the type tag, else by the datasets that are there, else None
StandaloneBackend_load_object_from_group(g, name) ==
    IF g.type = "SignalObj" THEN StandaloneBackend_load_signal(g, name)
    ELSE IF g.type = "ImageObj" THEN StandaloneBackend_load_image(g, name)
    ELSE IF g.shape = "xy" THEN StandaloneBackend_load_signal(g, name)
    ELSE IF g.shape = "data" THEN StandaloneBackend_load_image(g, name)
    ELSE NoDataObj

\* the groups of a file that load makes an object of
Recognised(gs) == {n \in DOMAIN gs : StandaloneBackend_load_object_from_group(gs[n], n) # NoDataObj}

\* os.path.exists is asked before the file is opened
StandaloneBackend_load_Opens(d, disk, path) ==
    IF disk = NoFile \/ disk.path # path
    THEN [res |-> "IOFailure", objects |-> d]
    ELSE [res |-> "ok",
          objects |-> [n \in DOMAIN d \cup Recognised(disk.groups) |->
                          IF n \in Recognised(disk.groups)
                          THEN StandaloneBackend_load_object_from_group(disk.groups[n], n)
                          ELSE d[n]]]

\* the store is emptied before the file is read
StandaloneBackend_load_Resets(d, disk, path) ==
    IF disk = NoFile \/ disk.path # path
    THEN [res |-> "FileNotFound", objects |-> d]
    ELSE [res |-> "ok",
          objects |-> [n \in Recognised(disk.groups) |->
                          StandaloneBackend_load_object_from_group(disk.groups[n], n)]]

\* d: the store loaded into; disk: the file system
StandaloneBackend_load(d, disk, path) ==
    IF disk = NoFile \/ disk.path # path
    THEN [res |-> "FileNotFound", objects |-> d]
    ELSE [res |-> "ok",
          objects |-> [n \in DOMAIN d \cup Recognised(disk.groups) |->
                          IF n \in Recognised(disk.groups)
                          THEN StandaloneBackend_load_object_from_group(disk.groups[n], n)
                          ELSE d[n]]]

\* what LiveBackend asks of the peer: the method of the proxy and its
\* arguments
NoRequest == [method |-> "none", files |-> <<>>, reset_all |-> None]

\* self.proxy.save_h5_workspace(filepath)
LiveBackend_save(path) ==
    [method |-> "save_h5_workspace", files |-> <<path>>, reset_all |-> None]

\* self.proxy.load_h5_workspace([filepath], reset_all=False)
LiveBackend_load(path) ==
    [method |-> "load_h5_workspace", files |-> <<path>>, reset_all |-> "False"]

\* groups that no save of this store wrote: without a type tag, holding x
\* and y, or data, or neither; and one that bears the tag of a signal
Shapes == {"xy", "data", "none"}

Untyped(shape) ==
    [type |-> "unknown", shape |-> shape, data |-> IF shape = "none" THEN Absent ELSE "q",
     dx |-> Absent, dy |-> Absent, x0 |-> Absent, mask |-> Absent,
     title |-> Absent, xlabel |-> Absent]

ForeignGroups ==
    {Untyped(shape) : shape \in Shapes}
        \cup {[Untyped("xy") EXCEPT !.type = "SignalObj", !.title = "t"]}

ForeignFiles == UNION {[ns -> ForeignGroups] : ns \in SUBSET Names}

\* a local store with its entries, and a store to load into: a new one, or
\* the same entries again; or a workspace over the RemoteProxy backend
InitPersist ==
    /\ backend \in {"standalone", "rpc"}
    /\ mode = IF backend = "rpc" THEN "live" ELSE "standalone"
    /\ \E d \in IF backend = "rpc" THEN {EmptyStore} ELSE Stores, fresh \in BOOLEAN :
          call = [op |-> "persist", pc |-> "start", store |-> d,
                  target |-> IF fresh THEN EmptyStore ELSE d, before |-> EmptyStore,
                  disk |-> NoFile, saved |-> "", loaded |-> "", res |-> "none",
                  request |-> NoRequest]
    /\ switch = Call("init", "ok")
    /\ objects = <<>>
    /\ names = {}
    /\ panels = EmptyPanels
    /\ blob = <<>>
    /\ link = "up"
    /\ removal = "call_method"

\* a file that others have written is at "ws.h5"
WsForeign(gs) ==
    /\ call.op = "persist" /\ call.pc = "start"
    /\ backend = "standalone"
    /\ call' = [call EXCEPT !.pc = "found", !.disk = [path |-> "ws.h5", groups |-> gs]]
    /\ UNCHANGED <<backend, mode, objects, panels, link, removal, blob, names, switch>>

\* Workspace.save(path): self._backend.save(filepath)
WsSave(path) ==
    /\ call.op = "persist" /\ call.pc = "start"
    /\ call' = IF backend = "rpc"
               THEN [call EXCEPT !.pc = "asked", !.saved = path,
                                 !.request = LiveBackend_save(path)]
               ELSE [call EXCEPT !.pc = "saved", !.saved = path,
                                 !.disk = StandaloneBackend_save(call.store, path)]
    /\ UNCHANGED <<backend, mode, objects, panels, link, removal, blob, names, switch>>

\* Workspace.load(path): self._backend.load(filepath), into the target,
\* before or after a save
WsLoad(path) ==
    /\ call.op = "persist" /\ call.pc \in {"start", "saved", "found"}
    /\ \E r \in {StandaloneBackend_load(call.target, call.disk, path)} :
          call' = IF backend = "rpc"
                  THEN [call EXCEPT !.pc = "asked", !.loaded = path,
                                    !.request = LiveBackend_load(path)]
                  ELSE [call EXCEPT !.pc = "loaded", !.loaded = path, !.before = call.target,
                                    !.target = r.objects, !.res = r.res]
    /\ UNCHANGED <<backend, mode, objects, panels, link, removal, blob, names, switch>>

NextPersist ==
    \/ \E gs \in ForeignFiles : WsForeign(gs)
    \/ \E path \in Paths : WsSave(path)
    \/ \E path \in Paths : WsLoad(path)

SpecPersist == InitPersist /\ [][NextPersist]_vars

(***************************************************************************)
(* SpecAlias: the local store with the identity of objects.  heap: the     *)
(* objects alive, cell 1 being the caller's o; store: name -> cell of the  *)
(* local store; peer: name -> object at the remote backend after a         *)
(* migration.  mine and kept are what the caller made of o and what the    *)
(* workspace made of each entry.                                           *)
(***************************************************************************)
MaxCells == 3

CallerCell == 1

NoCells == [n \in {} |-> 0]

\* self._objects[name] = obj.copy() if hasattr(obj, "copy") else obj, for an
\* object without copy or, as here, with the copy left out
StandaloneBackend_add_cell_Shared(o, new) == o

\* SignalObj and ImageObj have copy: the entry is a cell of its own
StandaloneBackend_add_cell(o, new) == new

InitAlias ==
    /\ \E o \in Obj :
          call = [op |-> "alias", heap |-> <<o>>, store |-> NoCells, peer |-> NoCells,
                  mine |-> o, kept |-> NoCells]
    /\ backend = "standalone"
    /\ mode = "standalone"
    /\ switch = Call("init", "ok")
    /\ objects = <<>>
    /\ names = {}
    /\ panels = EmptyPanels
    /\ blob = <<>>
    /\ link = "up"
    /\ removal = "call_method"

\* Workspace.add(n, o, overwrite) on the local store, o being the caller's
AliasAdd(n, overwrite) ==
    /\ call.op = "alias" /\ backend = "standalone"
    /\ Len(call.heap) < MaxCells
    /\ n \notin DOMAIN call.store \/ overwrite
    /\ LET c == StandaloneBackend_add_cell(CallerCell, Len(call.heap) + 1)
       IN  call' = [call EXCEPT
                      !.heap = Append(@, call.heap[CallerCell]),
                      !.store = [m \in DOMAIN @ \cup {n} |-> IF m = n THEN c ELSE @[m]],
                      !.kept = [m \in DOMAIN @ \cup {n} |->
                                   IF m = n THEN call.heap[CallerCell] ELSE @[m]]]
    /\ UNCHANGED <<backend, mode, objects, panels, link, removal, blob, names, switch>>

\* the caller writes to its o: the title or the payload
AliasMutate(o) ==
    /\ call.op = "alias"
    /\ o.kind = call.heap[CallerCell].kind
    /\ o # call.heap[CallerCell]
    /\ call' = [call EXCEPT !.heap[CallerCell] = o, !.mine = o]
    /\ UNCHANGED <<backend, mode, objects, panels, link, removal, blob, names, switch>>

\* Workspace.rename(old, new) on the local store: the key moves and the
\* entry's title is set
AliasRename(old, new) ==
    /\ call.op = "alias" /\ backend = "standalone"
    /\ old \in DOMAIN call.store
    /\ new \notin DOMAIN call.store
    /\ call' = [call EXCEPT
                  !.heap[call.store[old]] = SetTitle(@, new),
                  !.store = [m \in (DOMAIN @ \ {old}) \cup {new} |->
                                IF m = new THEN @[old] ELSE @[m]],
                  !.kept = [m \in (DOMAIN @ \ {old}) \cup {new} |->
                               IF m = new THEN SetTitle(@[old], new) ELSE @[m]]]
    /\ UNCHANGED <<backend, mode, objects, panels, link, removal, blob, names, switch>>

\* Workspace.resync (b = "rpc") or connect (b = "http") with the peer there:
\* each entry is got from the local store, which hands out its cell, and
\* added to the new backend; LiveBackend.add sets the title on the object it
\* is given
AliasMigrate(b) ==
    /\ call.op = "alias" /\ backend = "standalone"
    /\ backend' = b
    /\ mode' = "live"
    /\ switch' = Call(IF b = "rpc" THEN "resync" ELSE "connect", "true")
    /\ call' = [call EXCEPT
                  !.heap = [c \in 1..Len(@) |->
                               IF b = "rpc" /\ \E n \in DOMAIN call.store : call.store[n] = c
                               THEN SetTitle(@[c], CHOOSE n \in DOMAIN call.store :
                                                       call.store[n] = c)
                               ELSE @[c]],
                  !.peer = [n \in DOMAIN call.store |-> SetTitle(call.heap[call.store[n]], n)],
                  !.kept = [n \in DOMAIN @ |-> SetTitle(@[n], n)]]
    /\ UNCHANGED <<objects, panels, link, removal, blob, names>>

NextAlias ==
    \/ \E n \in Names, overwrite \in BOOLEAN : AliasAdd(n, overwrite)
    \/ \E o \in Obj : AliasMutate(o)
    \/ \E old \in Names, new \in Names : AliasRename(old, new)
    \/ \E b \in {"rpc", "http"} : AliasMigrate(b)

SpecAlias == InitAlias /\ [][NextAlias]_vars

(***************************************************************************)
(* SpecConnect: LiveBackend() statement by statement, for whoever calls    *)
(* it: the program itself (Workspace(backend=LiveBackend())), Workspace()  *)
(* in auto mode or with live demanded, or resync on a standalone           *)
(* workspace.  importOk, ctorOk, versionOk: whether the import of          *)
(* RemoteProxy, RemoteProxy() and get_version() go through.                *)
(***************************************************************************)
Callers == {"explicit", "auto", "live", "resync"}

\* get_version() raised or not: the except clause or the end of _connect;
\* here what it raised is let go
AfterVersion_Ignored(ok) == "return"

AfterVersion(ok) == IF ok THEN "return" ELSE "except"

InitConnect ==
    /\ call \in [op : {"connect"}, pc : {"new"}, by : Callers,
                 importOk : BOOLEAN, ctorOk : BOOLEAN, versionOk : BOOLEAN,
                 proxy : {"unset"}, probed : {FALSE}, instance : {FALSE}, res : {"none"}]
    /\ backend = IF call.by = "resync" THEN "standalone" ELSE "none"
    /\ mode = IF call.by = "resync" THEN "standalone" ELSE "none"
    /\ switch = IF call.by = "resync" THEN Call("init", "ok") ELSE Call("none", "none")
    /\ objects = <<>>
    /\ names = {}
    /\ panels = EmptyPanels
    /\ blob = <<>>
    /\ link = "up"
    /\ removal = "call_method"

\* __init__: self._proxy = None, then _connect()
LbNew ==
    /\ call.op = "connect" /\ call.pc = "new"
    /\ call' = [call EXCEPT !.pc = "import", !.proxy = None]
    /\ UNCHANGED <<backend, mode, objects, panels, link, removal, blob, names, switch>>

\* from datalab.control.proxy import RemoteProxy
LbImport ==
    /\ call.op = "connect" /\ call.pc = "import"
    /\ call' = [call EXCEPT !.pc = IF call.importOk THEN "ctor" ELSE "except"]
    /\ UNCHANGED <<backend, mode, objects, panels, link, removal, blob, names, switch>>

\* self._proxy = RemoteProxy(): no assignment when the constructor raises
LbProxy ==
    /\ call.op = "connect" /\ call.pc = "ctor"
    /\ call' = IF call.ctorOk THEN [call EXCEPT !.pc = "version", !.proxy = "RemoteProxy"]
               ELSE [call EXCEPT !.pc = "except"]
    /\ UNCHANGED <<backend, mode, objects, panels, link, removal, blob, names, switch>>

\* self._proxy.get_version()
LbVersion ==
    /\ call.op = "connect" /\ call.pc = "version"
    /\ call' = [call EXCEPT !.pc = AfterVersion(call.versionOk), !.probed = call.versionOk]
    /\ UNCHANGED <<backend, mode, objects, panels, link, removal, blob, names, switch>>

\* except Exception: self._proxy = None; raise ConnectionError
LbExcept ==
    /\ call.op = "connect" /\ call.pc = "except"
    /\ call' = [call EXCEPT !.pc = "raised", !.proxy = None, !.res = "ConnectionError"]
    /\ UNCHANGED <<backend, mode, objects, panels, link, removal, blob, names, switch>>

\* __init__ returns: the caller has an instance
LbReturn ==
    /\ call.op = "connect" /\ call.pc = "return"
    /\ call' = [call EXCEPT !.pc = "built", !.instance = TRUE, !.res = "ok"]
    /\ UNCHANGED <<backend, mode, objects, panels, link, removal, blob, names, switch>>

\* what the caller of LiveBackend() does with the instance or the error
WsTake ==
    /\ call.op = "connect" /\ call.pc \in {"built", "raised"}
    /\ call' = [call EXCEPT !.pc = "done"]
    /\ IF call.pc = "built"
       THEN /\ backend' = "rpc"
            /\ mode' = "live"
            /\ switch' = Call(IF call.by = "resync" THEN "resync" ELSE "init",
                              IF call.by = "resync" THEN "true" ELSE "ok")
       ELSE /\ backend' = IF call.by \in {"auto", "resync"} THEN "standalone" ELSE "none"
            /\ mode' = IF call.by \in {"auto", "resync"} THEN "standalone" ELSE "none"
            /\ switch' = CASE call.by = "resync" -> Call("resync", "false")
                           [] call.by = "auto"   -> Call("init", "ok")
                           [] OTHER              -> Call("init", "ConnectionError")
    /\ UNCHANGED <<objects, panels, link, removal, blob, names>>

NextConnect ==
    \/ LbNew
    \/ LbImport
    \/ LbProxy
    \/ LbVersion
    \/ LbExcept
    \/ LbReturn
    \/ WsTake

SpecConnect == InitConnect /\ [][NextConnect]_vars

(***************************************************************************)
(* SpecRace: two callers on one workspace that starts on the local store.  *)
(* One calls resync() (to = "rpc") or connect() (to = "http"), the other   *)
(* add(n, o).  Workspace takes no lock: each statement of either call is   *)
(* a step, and self._backend is read where the statement reads it.  The    *)
(* peers start empty and list what they are given at once.                 *)
(***************************************************************************)
InitRace ==
    /\ \E n \in Names, to \in {"rpc", "http"} :
          \E o \in {x \in Obj : x.title = n /\ x.data = "q"} :
              call = [op |-> "race", to |-> to, spc |-> "start", snapshot |-> <<>>, i |-> 1,
                      sres |-> "none", n |-> n, obj |-> o, apc |-> "start", ares |-> "none"]
    /\ backend = "standalone"
    /\ mode = "standalone"
    /\ switch = Call("init", "ok")
    /\ objects \in Dicts
    /\ names = {}
    /\ panels = EmptyPanels
    /\ blob = <<>>
    /\ link = "up"
    /\ removal = "call_method"

\* if self._mode == WorkspaceMode.LIVE: return; then the new backend is
\* constructed, or is not and the call returns False
SwConstruct(reach) ==
    /\ call.op = "race" /\ call.spc = "start"
    /\ call' = IF reach THEN [call EXCEPT !.spc = "list"]
               ELSE [call EXCEPT !.spc = "done", !.sres = "false"]
    /\ UNCHANGED <<backend, mode, objects, panels, link, removal, blob, names, switch>>

\* old_backend = self._backend; old_backend.list(): the names as they are now
SwList ==
    /\ call.op = "race" /\ call.spc = "list"
    /\ call' = [call EXCEPT !.spc = "loop", !.snapshot = StandaloneBackend_list(objects), !.i = 1]
    /\ UNCHANGED <<backend, mode, objects, panels, link, removal, blob, names, switch>>

\* obj = old_backend.get(name); new_backend.add(name, obj)
SwMove ==
    /\ call.op = "race" /\ call.spc = "loop" /\ call.i <= Len(call.snapshot)
    /\ LET name == call.snapshot[call.i]
           g    == StandaloneBackend_get(objects, name)
           r    == LiveBackend_add(panels, link, removal, name, g.obj, FALSE, TRUE)
           w    == WebApiBackend_add(blob, name, g.obj, FALSE)
           res  == IF g.res # "ok" THEN g.res ELSE IF call.to = "rpc" THEN r.res ELSE w.res
       IN  /\ call' = IF res = "ok" THEN [call EXCEPT !.i = @ + 1]
                      ELSE [call EXCEPT !.spc = "done", !.sres = res]
           /\ panels' = IF g.res = "ok" /\ call.to = "rpc" THEN r.panels ELSE panels
           /\ blob' = IF g.res = "ok" /\ call.to = "http" THEN w.blob ELSE blob
           /\ objects' = IF g.res = "ok" /\ call.to = "rpc" /\ r.titled
                         THEN DictSet(objects, name, SetTitle(g.obj, name))
                         ELSE objects
    /\ UNCHANGED <<backend, mode, link, removal, names, switch>>

\* self._backend = new_backend; self._mode = WorkspaceMode.LIVE; return True
SwSwitch ==
    /\ call.op = "race" /\ call.spc = "loop" /\ call.i > Len(call.snapshot)
    /\ call' = [call EXCEPT !.spc = "done", !.sres = "true"]
    /\ backend' = call.to
    /\ mode' = "live"
    /\ switch' = Call(IF call.to = "rpc" THEN "resync" ELSE "connect", "true")
    /\ UNCHANGED <<objects, panels, link, removal, blob, names>>

\* add: self._backend.add(name, obj, overwrite=False) on the backend that is
\* active now
AdBackend ==
    /\ call.op = "race" /\ call.apc = "start"
    /\ LET s == StandaloneBackend_add(objects, call.n, call.obj, FALSE)
           r == LiveBackend_add(panels, link, removal, call.n, call.obj, FALSE, TRUE)
           w == WebApiBackend_add(blob, call.n, call.obj, FALSE)
           res == CASE backend = "standalone" -> s.res
                    [] backend = "rpc"        -> r.res
                    [] backend = "http"       -> w.res
       IN  /\ call' = IF res = "ok" THEN [call EXCEPT !.apc = "get"]
                      ELSE [call EXCEPT !.apc = "done", !.ares = res]
           /\ objects' = IF backend = "standalone" THEN s.objects ELSE objects
           /\ panels' = IF backend = "rpc" THEN r.panels ELSE panels
           /\ blob' = IF backend = "http" THEN w.blob ELSE blob
    /\ UNCHANGED <<backend, mode, link, removal, names, switch>>

\* add: self._backend.get(name) on the backend that is active now; a
\* KeyError is waited on, and after the last one it is the outcome
AdGet(last) ==
    /\ call.op = "race" /\ call.apc = "get"
    /\ LET g == Backend_get(backend, objects, panels, link, blob, call.n)
       IN  /\ g.res = "ok" \/ last
           /\ call' = [call EXCEPT !.apc = "done", !.ares = g.res]
    /\ UNCHANGED <<backend, mode, objects, panels, link, removal, blob, names, switch>>

NextRace ==
    \/ \E reach \in BOOLEAN : SwConstruct(reach)
    \/ SwList
    \/ SwMove
    \/ SwSwitch
    \/ AdBackend
    \/ \E last \in BOOLEAN : AdGet(last)

SpecRace == InitRace /\ [][NextRace]_vars

(***************************************************************************)
(* SpecRename: LiveBackend.rename(old, new) one statement at a step, with  *)
(* the channel to DataLab changing between the statements.  call.before    *)
(* is the peer as the call found it, call.at the statement it ended at.    *)
(***************************************************************************)

\* the insertion is tried again under the old title when it fails
LiveBackend_rename_insert_Restores(ps, lk, o, old, listed) ==
    IF ~CallOk(lk)
    THEN [res |-> "Fault", panels |-> PeerAddObject(ps, SetTitle(o, old), TRUE)]
    ELSE [res |-> "ok", panels |-> PeerAddObject(ps, o, listed)]

\* self.proxy.add_object(obj), the last statement of rename
LiveBackend_rename_insert(ps, lk, o, old, listed) ==
    IF ~CallOk(lk)
    THEN [res |-> "Fault", panels |-> ps]
    ELSE [res |-> "ok", panels |-> PeerAddObject(ps, o, listed)]

InitRename ==
    /\ panels \in InitPanels
    /\ \E old \in Names, new \in Names :
          call = [op |-> "rename", pc |-> "check", at |-> "check", old |-> old, new |-> new,
                  obj |-> NoObj, res |-> "none", before |-> panels]
    /\ removal \in Caps
    /\ link = "up"
    /\ backend = "rpc"
    /\ mode = "live"
    /\ switch = Call("init", "ok")
    /\ objects = <<>>
    /\ names = {}
    /\ blob = <<>>

\* if not self.exists(old_name): raise KeyError; if self.exists(new_name):
\* raise ValueError
RnCheck ==
    /\ call.op = "rename" /\ call.pc = "check"
    /\ call' = IF ~LiveBackend_exists(panels, link, call.old)
               THEN [call EXCEPT !.pc = "done", !.res = "NotFound"]
               ELSE IF LiveBackend_exists(panels, link, call.new)
               THEN [call EXCEPT !.pc = "done", !.res = "AlreadyExists"]
               ELSE [call EXCEPT !.pc = "get", !.at = "get"]
    /\ UNCHANGED <<backend, mode, objects, panels, link, removal, blob, names, switch>>

\* obj = self.get(old_name); obj.title = new_name
RnGet ==
    /\ call.op = "rename" /\ call.pc = "get"
    /\ LET g == LiveBackend_get(panels, link, call.old)
       IN  call' = IF g.res # "ok"
                   THEN [call EXCEPT !.pc = "done", !.res = g.res]
                   ELSE [call EXCEPT !.pc = "remove", !.at = "remove",
                                     !.obj = SetTitle(g.obj, call.new)]
    /\ UNCHANGED <<backend, mode, objects, panels, link, removal, blob, names, switch>>

\* self.remove(old_name)
RnRemove ==
    /\ call.op = "rename" /\ call.pc = "remove"
    /\ \E rm \in {LiveBackend_remove(panels, link, removal, call.old)} :
          /\ panels' = rm.panels
          /\ call' = IF rm.res # "ok"
                     THEN [call EXCEPT !.pc = "done", !.res = rm.res]
                     ELSE [call EXCEPT !.pc = "insert", !.at = "insert"]
    /\ UNCHANGED <<backend, mode, objects, link, removal, blob, names, switch>>

\* self.proxy.add_object(obj)
RnInsert(listed) ==
    /\ call.op = "rename" /\ call.pc = "insert"
    /\ \E r \in {LiveBackend_rename_insert(panels, link, call.obj, call.old, listed)} :
          /\ panels' = r.panels
          /\ call' = [call EXCEPT !.pc = "done", !.res = r.res]
    /\ UNCHANGED <<backend, mode, objects, link, removal, blob, names, switch>>

\* the channel changes while the call is under way
RnLink(lk) ==
    /\ call.op = "rename" /\ call.pc # "done"
    /\ lk # link
    /\ link' = lk
    /\ UNCHANGED <<backend, mode, objects, panels, removal, blob, names, switch, call>>

NextRename ==
    \/ RnCheck
    \/ RnGet
    \/ RnRemove
    \/ \E listed \in BOOLEAN : RnInsert(listed)
    \/ \E lk \in Links : RnLink(lk)

SpecRename == InitRename /\ [][NextRename]_vars

(***************************************************************************)
(* SpecLife: the whole life of a workspace: the store operations, the      *)
(* proxy property and the backend switches, in any order.                  *)
(***************************************************************************)
InitLife == Init /\ removal = "call_method"

\* the objects handed to add: one payload, the title the name
Given(n) == {o \in Obj : o.title = n /\ o.data = "p"}

NextLife ==
    \/ \E n \in Names, overwrite \in BOOLEAN, lag \in Waits :
          \E o \in Given(n) : WsAdd(n, o, overwrite, lag)
    \/ \E n \in Names : WsRemove(n)
    \/ \E old \in Names, new \in Names : WsRename(old, new, TRUE)
    \/ WsClear
    \/ PeerIndex
    \/ \E reach \in BOOLEAN, failAt \in Names \cup {""} : WsResync(reach, failAt, {})
    \/ \E reach \in BOOLEAN : WsConnect(reach)
    \/ WsProxy

SpecLife == InitLife /\ [][NextLife]_vars

(***************************************************************************)
(* SpecDetect: Workspace() in an environment: the two variables it reads   *)
(* and whether each remote constructor would succeed.                      *)
(***************************************************************************)
Environments ==
    [op : {"init"}, pc : {"start"}, kernel_mode : KernelModeEnv, url : UrlEnv,
     webReach : BOOLEAN, rpcReach : BOOLEAN, attempts : {<<>>}]

InitDetect ==
    /\ call \in Environments
    /\ backend = "none"
    /\ mode = "none"
    /\ switch = Call("none", "none")
    /\ objects = <<>>
    /\ names = {}
    /\ panels = EmptyPanels
    /\ blob = <<>>
    /\ link = "up"
    /\ removal = "call_method"

\* Workspace(): backend None, so _auto_detect_backend decides
WsConstruct ==
    /\ call.op = "init" /\ call.pc = "start"
    /\ \E r \in {Workspace_auto_detect_backend(EnvKernelMode(call.kernel_mode),
                                               Truthy(call.url), call.webReach,
                                               call.rpcReach)} :
          /\ backend' = r.backend
          /\ mode' = r.mode
          /\ switch' = Call("init", IF r.backend = "none" THEN "ConnectionError" ELSE "ok")
          /\ call' = [call EXCEPT !.pc = "done", !.attempts = r.attempts]
    /\ UNCHANGED <<objects, panels, link, removal, blob, names>>

NextDetect == WsConstruct

SpecDetect == InitDetect /\ [][NextDetect]_vars

(***************************************************************************)
(* Properties of the store operations, under Spec.                         *)
(***************************************************************************)
\* how many entries of the active backend's collection go under name n,
\* listed or not
Held(n) ==
    CASE backend = "standalone" -> Count(Keys(objects), n)
      [] backend = "rpc"        -> Bearing(panels, n)
      [] backend = "http"       -> Count(Keys(blob), n)
      [] OTHER                  -> 0

\* the objects a call of add may be given as n's
Args(n) == IF backend = "standalone" THEN Obj ELSE {o \in Obj : o.title = n}

\* Workspace.add on the current state
AddNow(n, o, overwrite, lag) ==
    Workspace_add(backend, objects, panels, link, removal, blob, n, o, overwrite, lag)

\* Workspace.get / list in the state a call r of add leaves
GetAfter(r, n) == Backend_get(backend, r.objects, r.panels, link, r.blob, n)

ListAfter(r) == Backend_list(backend, r.objects, r.panels, link, r.blob)

\* C1: on the local store and through the RemoteProxy backend, whenever
\* Workspace.add(n, o) succeeds on a collection holding nothing under n, a
\* get(n) made right after it succeeds and returns o's content
C1_AddThenGet ==
    backend \in {"standalone", "rpc"} =>
        \A n \in Names, overwrite \in BOOLEAN, lag \in Lags : \A o \in Args(n) :
            LET r == AddNow(n, o, overwrite, lag)
            IN  (Held(n) = 0 /\ r.res = "ok") =>
                    /\ GetAfter(r, n).res = "ok"
                    /\ Content(GetAfter(r, n).obj) = Content(o)
                    /\ Content(r.obj) = Content(o)

\* an add through the RemoteProxy backend has succeeded (the peer held
\* nothing before the workspace's calls) and get finds the object it left
C1_Witness ==
    /\ backend = "rpc"
    /\ Bearing(panels, "a") = 1
    /\ LiveBackend_get(panels, link, "a").res = "ok"
    /\ LiveBackend_get(panels, link, "a").obj.data = "q"

\* C2 as stated: on every backend, while n is present, add(n, o2) without
\* overwrite fails with AlreadyExists and leaves the entries as they were,
\* and add(n, o2, overwrite=True) succeeds, a get(n) after it returns o2's
\* content and list() shows n exactly once (the peer listing at once)
C2_Overwrite ==
    Constructed =>
        \A n \in Names : \A o2 \in Args(n) :
            LET keep == AddNow(n, o2, FALSE, 0)
                over == AddNow(n, o2, TRUE, 0)
            IN  Workspace_exists(n) =>
                    /\ keep.res = "AlreadyExists"
                    /\ keep.objects = objects /\ keep.panels = panels /\ keep.blob = blob
                    /\ over.res = "ok"
                    /\ GetAfter(over, n).res = "ok"
                    /\ Content(GetAfter(over, n).obj) = Content(o2)
                    /\ Count(ListAfter(over), n) = 1

\* C2 amended: while n is present, add(n, o2) without overwrite fails with
\* AlreadyExists and leaves the entries as they were; add(n, o2,
\* overwrite=True) succeeds on the local store and on the HTTP backend; on
\* the RemoteProxy backend it fails with Unsupported, the peer's objects
\* untouched, when the peer has no removal primitive; wherever it succeeds
\* and n was listed exactly once, a get(n) after it returns o2's content and
\* list() shows n exactly once
C2_OverwriteAmended ==
    Constructed =>
        \A n \in Names, lag \in Lags : \A o2 \in Args(n) :
            LET keep == AddNow(n, o2, FALSE, lag)
                over == AddNow(n, o2, TRUE, lag)
            IN  Workspace_exists(n) =>
                    /\ keep.res = "AlreadyExists"
                    /\ keep.objects = objects /\ keep.panels = panels /\ keep.blob = blob
                    /\ backend \in {"standalone", "http"} => over.res = "ok"
                    /\ (backend = "rpc" /\ removal = "none") =>
                           over.res = "Unsupported" /\ over.panels = panels
                    /\ (over.res = "ok" /\ Count(Workspace_list, n) = 1) =>
                           /\ GetAfter(over, n).res = "ok"
                           /\ Content(GetAfter(over, n).obj) = Content(o2)
                           /\ Count(ListAfter(over), n) = 1

\* the RemoteProxy peer lists "a" once; it can only have got there by an
\* add, and an add with overwrite now meets a peer without removal
C2_Witness ==
    /\ backend = "rpc"
    /\ removal = "none"
    /\ Count(Workspace_list, "a") = 1
    /\ AddNow("a", [kind |-> "image", title |-> "a", data |-> "q"], TRUE, 0).res = "Unsupported"

\* C3 as stated: the names list() returns on the local store and on the
\* RemoteProxy backend hold no duplicates, lagging listing or not
C3_ListNoDup ==
    backend \in {"standalone", "rpc"} => NoDup(Workspace_list)

\* C4: over the local store list() returns exactly the names successfully
\* inserted and not since removed or renamed away, each once, and exists(n)
\* is true exactly for them; on an empty store add(n) gives list() = [n] and
\* a remove(n) after it gives list() = []
C4_RefinesMap ==
    backend = "standalone" =>
        /\ Range(Workspace_list) = names
        /\ NoDup(Workspace_list)
        /\ \A n \in Names : Workspace_exists(n) <=> n \in names
        /\ objects = <<>> =>
               \A n \in Names, o \in Obj :
                   LET r  == AddNow(n, o, FALSE, 0)
                       r2 == Workspace_remove(backend, r.objects, r.panels, link, removal,
                                              r.blob, n)
                   IN  /\ r.res = "ok"
                       /\ ListAfter(r) = <<n>>
                       /\ r2.res = "ok"
                       /\ ListAfter(r2) = <<>>

\* two names went into the local store, "b" first
C4_Witness ==
    /\ backend = "standalone"
    /\ names = {"a", "b"}
    /\ Workspace_list = <<"b", "a">>

(***************************************************************************)
(* Properties of construction, resync and connect, under SpecSync.         *)
(***************************************************************************)
\* Workspace.resync / connect on the current state
ResyncNow(reach, failAt, lagging) ==
    Workspace_resync(mode, backend, objects, panels, link, blob, removal, reach, failAt, lagging)

ConnectNow(reach) == Workspace_connect(mode, backend, objects, blob, reach)

\* the inputs of a migration: where the channel fails, which insertions lag
Faults == Names \cup {""}

Stored == Range(Keys(objects))

\* C5 as stated: the mode is standalone exactly when the active backend is
\* the local store, and live exactly when it is one of the remote backends
C5_ModeDerived ==
    Constructed =>
        /\ mode = "standalone" <=> backend = "standalone"
        /\ mode = "live" <=> backend \in {"rpc", "http"}

C7_ResyncLiveNoOp ==
    mode = "live" =>
        \A reach \in BOOLEAN, failAt \in Faults, lagging \in SUBSET Names :
            LET r == ResyncNow(reach, failAt, lagging)
            IN  /\ r.res = "false"
                /\ r.backend = backend /\ r.mode = mode
                /\ r.objects = objects /\ r.panels = panels /\ r.link = link

\* resync was called on a live workspace whose peer holds an object
C7_Witness ==
    /\ switch = Call("resync", "false")
    /\ mode = "live"
    /\ PeerSize(panels) + Len(blob) > 0

\* C8: resync() on a standalone workspace, LiveBackend() failing, returns
\* false, and backend, mode and the stored objects are what they were
C8_ResyncUnreachable ==
    (backend = "standalone" /\ mode = "standalone") =>
        \A failAt \in Faults, lagging \in SUBSET Names :
            LET r == ResyncNow(FALSE, failAt, lagging)
            IN  /\ r.res = "false"
                /\ r.backend = "standalone" /\ r.mode = "standalone"
                /\ r.objects = objects /\ r.panels = panels

\* resync returned false on a standalone workspace holding two entries
C8_Witness ==
    /\ switch = Call("resync", "false")
    /\ backend = "standalone" /\ mode = "standalone"
    /\ Len(objects) = 2

\* C9 as stated: when an add of resync's migration fails, resync fails with
\* that error, the workspace keeps the local store as backend and the mode
\* standalone, and get returns every stored entry as it was, title included
C9_FailedMigrationKeeps ==
    (backend = "standalone" /\ mode = "standalone") =>
        \A failAt \in Faults, lagging \in SUBSET Names :
            LET r == ResyncNow(TRUE, failAt, lagging)
            IN  r.res \notin {"true", "false"} =>
                    /\ r.backend = "standalone" /\ r.mode = "standalone"
                    /\ \A n \in Stored :
                           /\ StandaloneBackend_get(r.objects, n).res = "ok"
                           /\ StandaloneBackend_get(r.objects, n).obj = Lookup(objects, n)

Built == call.op = "init" /\ call.pc = "done"

Failed == backend = "none" /\ switch = Call("init", "ConnectionError")

\* C11: with DATALAB_KERNEL_MODE forcing standalone, Workspace() ends on the
\* local store in standalone mode, has called neither remote constructor,
\* whatever the URL and whichever peers are reachable, and has not failed.
C11_ForcedStandalone ==
    (Built /\ EnvKernelMode(call.kernel_mode) = "standalone")
        => /\ backend = "standalone"
           /\ mode = "standalone"
           /\ call.attempts = <<>>
           /\ switch = Call("init", "ok")

\* the forced mode, with a URL set and both peers reachable
C11_Witness ==
    /\ Built
    /\ call.kernel_mode = "STANDALONE"
    /\ Truthy(call.url) /\ call.webReach /\ call.rpcReach
    /\ backend = "standalone"

\* C12: with DATALAB_KERNEL_MODE demanding live, Workspace() never ends in
\* standalone mode: it ends on a remote backend in live mode or raises
\* ConnectionError, and it raises ConnectionError when the URL is set and
\* the Web API backend cannot be constructed.
C12_LiveDemanded ==
    (Built /\ EnvKernelMode(call.kernel_mode) = "live")
        => /\ \/ backend \in {"http", "rpc"} /\ mode = "live" /\ switch = Call("init", "ok")
              \/ Failed
           /\ (Truthy(call.url) /\ ~call.webReach) => Failed

\* live demanded, URL set, the Web API unreachable while the RemoteProxy
\* peer could have been reached: the construction failed
C12_Witness ==
    /\ Built
    /\ EnvKernelMode(call.kernel_mode) = "live"
    /\ Truthy(call.url) /\ ~call.webReach /\ call.rpcReach
    /\ Failed

\* C13: in auto mode Workspace() never fails and ends on one backend by
\* priority: the Web API when the URL is set and it can be constructed, else
\* the RemoteProxy peer when it can be constructed, else the local store;
\* the local store only after every applicable remote constructor was called
\* and failed.
C13_AutoPriority ==
    (Built /\ EnvKernelMode(call.kernel_mode) \notin {"standalone", "live"})
        => /\ switch = Call("init", "ok")
           /\ backend = (IF Truthy(call.url) /\ call.webReach THEN "http"
                         ELSE IF call.rpcReach THEN "rpc"
                         ELSE "standalone")
           /\ mode = (IF backend = "standalone" THEN "standalone" ELSE "live")
           /\ backend = "standalone"
                => /\ ~call.rpcReach
                   /\ Truthy(call.url) => ~call.webReach
                   /\ call.attempts = (IF Truthy(call.url) THEN <<"WebApiBackend">> ELSE <<>>)
                                         \o <<"LiveBackend">>

\* auto mode, both peers reachable and the URL set: the Web API wins
C13_Witness ==
    /\ Built
    /\ call.kernel_mode = "unset"
    /\ Truthy(call.url) /\ call.webReach /\ call.rpcReach
    /\ backend = "http"

C15_CalcForwards ==
    (call.op = "calc" /\ mode = "live" /\ backend \in {"rpc", "http"})
        => /\ call.forwarded = <<call.name, call.param>>
           /\ call.res = "ok" => call.value = PeerCalc(call.name, call.param)

\* C16: in live mode, on either remote backend, the proxy property returns
\* the channel of the active backend and does not raise; it raises in
\* standalone mode only.
C16_ProxyInLive ==
    call.op = "proxy"
        => /\ call.res = "RuntimeError" <=> mode = "standalone"
           /\ mode = "live" => call.res = "ok" /\ call.value = Channel(backend)

(***************************************************************************)
(* Properties of the retry window of Workspace.add, under SpecRetry and    *)
(* SpecRetryLive.                                                          *)
(***************************************************************************)
AddDone == call.op = "add" /\ call.pc = "done"

\* C17: Workspace.add comes to an end, and at any moment of it there have
\* been at most 21 gets and at most 20 sleeps, one sleep after each failed
\* get of the retry window and none after the final get.
C17_AddTerminates ==
    /\ [](/\ Len(call.outcomes) <= Retries + 1
          /\ call.sleeps <= Retries
          /\ call.sleeps <= Len(call.outcomes)
          /\ (AddDone /\ call.outcomes # <<>>) => call.sleeps = Len(call.outcomes) - 1)
    /\ <>AddDone

\* the peer never showed the object: 21 gets, 20 sleeps
C17_Witness ==
    /\ AddDone
    /\ Len(call.outcomes) = Retries + 1
    /\ call.sleeps = Retries
    /\ call.res = "NotFound"

\* C18: Workspace.add ends with the error of the backend's add, no get
\* made, when that add raised; otherwise with the outcome of its last get,
\* every get before it having raised KeyError, so that any other error of a
\* get ends the add at once, and a KeyError ends it only as the outcome of
\* the final get.
C18_AddPropagates ==
    AddDone
        => \/ /\ call.res \in AddOutcomes \ {"ok"}
              /\ call.outcomes = <<>>
           \/ /\ call.outcomes # <<>>
              /\ call.res = call.outcomes[Len(call.outcomes)]
              /\ \A k \in 1..(Len(call.outcomes) - 1) : call.outcomes[k] = "NotFound"
              /\ call.res = "NotFound" => Len(call.outcomes) = Retries + 1

\* an error other than KeyError at the second get ended the add there
C18_Witness ==
    /\ AddDone
    /\ call.outcomes = <<"NotFound", "Fault">>
    /\ call.res = "Fault"
    /\ call.sleeps = 1

(***************************************************************************)
(* Properties of remove, under Spec.                                       *)
(***************************************************************************)
RemoveNow(n) == Workspace_remove(backend, objects, panels, link, removal, blob, n)

\* C19: on each backend remove(n) for a name that exists(n) denies raises
\* KeyError and leaves the local store, the peer's panels and the blob store
\* as they were; the LiveBackend calls no selection or removal primitive of
\* the peer for it.
C19_RemoveAbsent ==
    \A n \in Names :
        (Constructed /\ ~Workspace_exists(n))
            => /\ RemoveNow(n).res = "NotFound"
               /\ RemoveNow(n).objects = objects
               /\ RemoveNow(n).panels = panels
               /\ RemoveNow(n).blob = blob
               /\ backend = "rpc"
                    => LiveBackend_remove(panels, link, removal, n).invoked = <<>>

\* the peer holds other objects, and "a" itself out of the listing's sight
C19_Witness ==
    /\ backend = "rpc"
    /\ CallOk(link)
    /\ removal = "call_method"
    /\ Workspace_exists("b")
    /\ ~Workspace_exists("a")
    /\ Bearing(panels, "a") > 0
    /\ RemoveNow("a").res = "NotFound"

\* C20: on the LiveBackend remove(n) for a name that exists(n) affirms
\* either returns, and exists(n) is false afterwards, or raises; against a
\* peer without a removal capability it raises NotImplementedError and the
\* entry is still there, unchanged.
C20_RemovePresent ==
    \A n \in Names :
        (backend = "rpc" /\ Workspace_exists(n))
            => /\ RemoveNow(n).res = "ok" => ~LiveBackend_exists(RemoveNow(n).panels, link, n)
               /\ (removal = "none" /\ CallOk(link))
                    => /\ RemoveNow(n).res = "Unsupported"
                       /\ RemoveNow(n).panels = panels

(***************************************************************************)
(* Properties of rename, clear, exists and list, under Spec.               *)
(***************************************************************************)
\* Workspace.rename on the current state
RenameNow(old, new, listed) ==
    Workspace_rename(backend, objects, panels, link, removal, blob, old, new, listed)

ExistsAfter(r, n) == Backend_exists(backend, r.objects, r.panels, link, r.blob, n)

\* C21: on every backend, once rename(a, b) has returned normally, exists(a)
\* is false, exists(b) is true, get(b) succeeds with title b and with the
\* content get(a) gave before the call, and get of every other name gives
\* what it gave before.
C21_RenameMoves ==
    Constructed =>
        \A a \in Names, b \in Names, listed \in BOOLEAN :
            LET r == RenameNow(a, b, listed)
            IN  (r.res = "ok" /\ (backend = "rpc" \/ listed)) =>
                    /\ ~ExistsAfter(r, a)
                    /\ ExistsAfter(r, b)
                    /\ GetAfter(r, b).res = "ok"
                    /\ GetAfter(r, b).obj.title = b
                    /\ Content(GetAfter(r, b).obj) = Content(Workspace_get(a).obj)
                    /\ \A n \in Names \ {a, b} : GetAfter(r, n) = Workspace_get(n)

\* C22: rename(old, new) raises KeyError when exists(old) is false, whatever
\* holds of new, and ValueError when exists(old) and exists(new) are both
\* true, new = old included; either way the local store, the peer's panels
\* and the blob store, titles included, are as before.
C22_RenameFails ==
    Constructed =>
        \A old \in Names, new \in Names, listed \in BOOLEAN :
            LET r == RenameNow(old, new, listed)
            IN  /\ ~Workspace_exists(old) => r.res = "NotFound"
                /\ (Workspace_exists(old) /\ Workspace_exists(new)) => r.res = "AlreadyExists"
                /\ r.res \in {"NotFound", "AlreadyExists"}
                     => r.objects = objects /\ r.panels = panels /\ r.blob = blob

\* the local store holds both names: renaming one to the other, or to
\* itself, is refused
C22_Witness ==
    /\ backend = "standalone"
    /\ Stored = {"a", "b"}
    /\ RenameNow("a", "b", TRUE).res = "AlreadyExists"
    /\ RenameNow("a", "a", TRUE).res = "AlreadyExists"

\* Workspace.clear on the current state
ClearNow == Workspace_clear(backend, objects, panels, link, blob)

\* C23 as stated: on every backend, after clear() list() is empty and
\* exists(n) is false for every n, and clear() on a collection whose list()
\* is empty returns normally and leaves it empty.
C23_Clear ==
    Constructed =>
        /\ ClearNow.res = "ok"
             => /\ ListAfter(ClearNow) = <<>>
                /\ \A n \in Names : ~ExistsAfter(ClearNow, n)
        /\ Workspace_list = <<>>
             => ClearNow.res = "ok" /\ ListAfter(ClearNow) = <<>>

\* C23 amended: on every backend, after a clear() that returned normally
\* list() is empty and exists(n) is false for every n; clear() on a
\* collection whose list() is empty returns normally on the local store and
\* on the HTTP backend, and on the RemoteProxy backend while the channel
\* answers; over a lost channel reset_all raises, the error reaches the
\* caller and nothing has changed.
C23_ClearAmended ==
    Constructed =>
        /\ ClearNow.res = "ok"
             => /\ ListAfter(ClearNow) = <<>>
                /\ \A n \in Names : ~ExistsAfter(ClearNow, n)
        /\ (Workspace_list = <<>> /\ (backend = "rpc" => CallOk(link)))
             => ClearNow.res = "ok" /\ ListAfter(ClearNow) = <<>>
        /\ (backend = "rpc" /\ ~CallOk(link))
             => /\ ClearNow.res = "Fault"
                /\ ClearNow.panels = panels

\* the peer holds objects in both panels and the channel answers: clear
\* empties them
C23_Witness ==
    /\ backend = "rpc"
    /\ CallOk(link)
    /\ Len(panels.signal) > 0 /\ Len(panels.image) > 0
    /\ ClearNow.res = "ok"
    /\ ClearNow.panels = EmptyPanels

\* C24: exists(n) on the local store and on the RemoteProxy backend returns
\* normally whatever the state of the peer and of the channel, with a
\* boolean that says whether n is among the names list() returns then, and
\* leaves the store and the peer as they were.
C24_ExistsTotal ==
    \A n \in Names :
        /\ backend = "standalone"
             => /\ StandaloneBackend_exists(objects, n) \in BOOLEAN
                /\ StandaloneBackend_exists(objects, n) <=> n \in Range(Workspace_list)
        /\ backend = "rpc"
             => LET e == LiveBackend_exists_outcome(panels, link, n)
                IN  /\ e.res = "ok"
                    /\ e.value \in BOOLEAN
                    /\ e.value <=> n \in Range(Workspace_list)
                    /\ e.value <=> Workspace_exists(n)
                    /\ e.panels = panels

\* the peer holds "a" and the connection is lost: exists answers False
C24_Witness ==
    /\ backend = "rpc"
    /\ link = "lost"
    /\ Bearing(panels, "a") > 0
    /\ LiveBackend_exists_outcome(panels, link, "a") = [res |-> "ok", value |-> FALSE, panels |-> panels]

\* C25: list() on the RemoteProxy backend returns normally in every state of
\* the channel: the titles of the signal panel when its probe answers, then
\* those of the image panel when its probe answers, a failing probe adding
\* nothing and not standing in the way of the other; nothing at all when
\* both fail.
C25_ListAbsorbs ==
    backend = "rpc"
        => LET l == LiveBackend_list_outcome(panels, link)
           IN  /\ l.res = "ok"
               /\ l.value = (IF ProbeOk(link, "signal") THEN PeerTitles(panels, "signal") ELSE <<>>)
                            \o (IF ProbeOk(link, "image") THEN PeerTitles(panels, "image") ELSE <<>>)
               /\ (~ProbeOk(link, "signal") /\ ~ProbeOk(link, "image")) => l.value = <<>>
               /\ l.value = Workspace_list

\* the signal probe fails while both panels list an object: the image
\* titles are returned
C25_Witness ==
    /\ backend = "rpc"
    /\ link = "sigdown"
    /\ PeerTitles(panels, "signal") # <<>>
    /\ PeerTitles(panels, "image") # <<>>
    /\ LiveBackend_list_outcome(panels, link).value = PeerTitles(panels, "image")

\* C26: get(n) on the RemoteProxy backend raises KeyError only for a name
\* the title listing does not show; when the listing shows n and the fetch
\* of the object fails, that failure reaches the caller, not KeyError.
C26_GetPropagates ==
    backend = "rpc"
        => \A n \in Names, fetchOk \in BOOLEAN :
               LET g == LiveBackend_get_outcome(panels, link, n, fetchOk)
               IN  /\ g.res = "NotFound" => ~LiveBackend_exists(panels, link, n)
                   /\ (LiveBackend_exists(panels, link, n) /\ ~fetchOk) => g.res = "Fault"

(***************************************************************************)
(* Properties of save and load, under SpecPersist.                         *)
(***************************************************************************)
Loaded == call.op = "persist" /\ call.pc = "loaded"

\* C27: save(path) of a local store, then load(path) into an empty store,
\* gives the names that were saved and under each name the object that was
\* saved: its arrays, its title, empty or not, its label, and None wherever
\* an optional field was None.
C27_RoundTrip ==
    (Loaded /\ call.saved = call.loaded /\ call.before = EmptyStore)
        => /\ call.res = "ok"
           /\ DOMAIN call.target = DOMAIN call.store
           /\ \A n \in DOMAIN call.store : call.target[n] = call.store[n]

\* C28: load(path) on the local store, no file being at path, raises
\* FileNotFoundError and leaves the entries as they were.
C28_LoadMissing ==
    (Loaded /\ (call.disk = NoFile \/ call.disk.path # call.loaded))
        => /\ call.res = "FileNotFound"
           /\ call.target = call.before

\* nothing was ever saved, and the store loaded into holds two entries
C28_Witness ==
    /\ Loaded
    /\ call.disk = NoFile
    /\ DOMAIN call.before = {"a", "b"}
    /\ call.res = "FileNotFound"
    /\ call.target = call.before

(***************************************************************************)
(* Properties of the isolation of stored objects, under SpecAlias.         *)
(***************************************************************************)
\* what get(n) returns now
AliasGet(n) ==
    IF backend = "standalone" THEN call.heap[call.store[n]] ELSE call.peer[n]

AliasHeld == IF backend = "standalone" THEN DOMAIN call.store ELSE DOMAIN call.peer

\* C29: after add(n, o) on the local store, get(n) returns what the
\* workspace made of the entry, whatever the caller has written to o since,
\* and o is what the caller made of it, whatever rename, resync or connect
\* have done since.
C29_Isolated ==
    call.op = "alias"
        => /\ call.heap[CallerCell] = call.mine
           /\ AliasHeld = DOMAIN call.kept
           /\ \A n \in AliasHeld : AliasGet(n) = call.kept[n]

\* o was added as "a", the entry renamed to "b", and the caller has since
\* changed the payload of o: the entry has the old payload and o its title
C29_Witness ==
    /\ call.op = "alias"
    /\ backend = "standalone"
    /\ DOMAIN call.store = {"b"}
    /\ call.mine.title = "a"
    /\ AliasGet("b").title = "b"
    /\ AliasGet("b").data # call.mine.data

(***************************************************************************)
(* Properties of the construction of a LiveBackend, under SpecConnect.     *)
(***************************************************************************)
\* C30: LiveBackend() either returns an instance whose _proxy is set and
\* has answered get_version(), or raises ConnectionError, no instance
\* coming to be; an instance in anyone's hands, the workspace's included,
\* never has _proxy unset.
C30_ConnectedOrNone ==
    call.op = "connect"
        => /\ call.instance => call.proxy = "RemoteProxy" /\ call.probed
           /\ call.pc \in {"built", "raised", "done"}
                => \/ call.res = "ok" /\ call.instance
                   \/ call.res = "ConnectionError" /\ ~call.instance /\ call.proxy = None
           /\ backend = "rpc" => call.instance /\ call.proxy = "RemoteProxy" /\ call.probed
           /\ call.instance <=> (call.importOk /\ call.ctorOk /\ call.versionOk
                                   /\ call.pc \in {"built", "done"})

\* RemoteProxy() went through and get_version() did not: resync got
\* ConnectionError and the workspace stays on the local store
C30_Witness ==
    /\ call.op = "connect" /\ call.pc = "done"
    /\ call.by = "resync"
    /\ call.ctorOk /\ ~call.versionOk
    /\ call.res = "ConnectionError"
    /\ ~call.instance /\ call.proxy = None
    /\ backend = "standalone"

(***************************************************************************)
(* Properties of concurrent callers, under SpecRace.                       *)
(***************************************************************************)
\* C31: whichever way the statements of an add(n, o) and of a resync() or
\* connect() on the same workspace interleave, once the add has returned the
\* object and the switch has returned True, get(n) on the workspace finds n.
C31_AddSurvivesSwitch ==
    (call.op = "race" /\ call.spc = "done" /\ call.sres = "true"
       /\ call.apc = "done" /\ call.ares = "ok")
        => Workspace_get(call.n).res = "ok"

(***************************************************************************)
(* Properties of the switch of backends, under SpecSync.                   *)
(***************************************************************************)
\* the connection a backend owns, if it owns one
Owned(b) == IF b \in {"rpc", "http"} THEN {b} ELSE {}

\* C32: when resync or connect ends, the connections it has made and left
\* open are at most the one of the backend it has made active, so none when
\* it returns False or raises in the migration, and the connection of a
\* remote backend it has superseded has been shut.
C32_NoDangling ==
    Constructed =>
        /\ \A reach \in BOOLEAN, failAt \in Faults, lagging \in SUBSET Names :
              LET r == ResyncNow(reach, failAt, lagging)
              IN  /\ r.opened \subseteq (IF r.res = "true" THEN Owned(r.backend) ELSE {})
                  /\ r.backend # backend => Owned(backend) \subseteq r.closed
        /\ \A reach \in BOOLEAN :
              LET r == ConnectNow(reach)
              IN  /\ r.opened \subseteq (IF r.res = "true" /\ r.backend # backend
                                         THEN Owned(r.backend) ELSE {})
                  /\ r.backend # backend => Owned(backend) \subseteq r.closed

\* C33: when resync on the local store meets a peer that lists none of the
\* stored names and the add of the k-th name, in list() order, raises, the
\* error comes out of resync, the peer has gained the k-1 entries before it
\* and nothing else, nothing is taken back, and the workspace is still on
\* the local store with all its names.
C33_PartialMigration ==
    (backend = "standalone" /\ mode = "standalone")
        => \A k \in 1..Len(objects), lagging \in SUBSET Names :
               LET ns == Keys(objects)
                   r  == ResyncNow(TRUE, ns[k], lagging)
               IN  (\A j \in 1..Len(ns) : ~LiveBackend_exists(panels, "up", ns[j]))
                       => /\ r.res = "Fault"
                          /\ r.backend = "standalone" /\ r.mode = "standalone"
                          /\ Keys(r.objects) = ns
                          /\ \A j \in 1..Len(ns) :
                                 Bearing(r.panels, ns[j])
                                     = Bearing(panels, ns[j]) + (IF j < k THEN 1 ELSE 0)
                          /\ PeerSize(r.panels) = PeerSize(panels) + k - 1

\* a resync has failed at the second of two entries: the workspace is on
\* the local store with both and the peer holds the first
C33_Witness ==
    /\ backend = "standalone"
    /\ switch = Call("resync", "Fault")
    /\ Len(objects) = 2
    /\ PeerSize(panels) = 1
    /\ Bearing(panels, Keys(objects)[1]) = 1
    /\ Bearing(panels, Keys(objects)[2]) = 0

(***************************************************************************)
(* Properties of LiveBackend.rename taken statement by statement, under    *)
(* SpecRename.                                                             *)
(***************************************************************************)

\* C34: rename on the RPC backend, at a peer where one object bears old,
\* fetches the object and retitles the copy before it removes anything, then removes old, then inserts; once the
\* removal has succeeded and until the insertion the peer bears neither
\* name; and when the insertion then fails the call ends with that failure
\* and the peer has lost the entry: it bears neither name.
C34_RenameNotAtomic ==
    call.op = "rename" =>
        /\ call.pc = "remove"
               => /\ panels = call.before
                  /\ call.obj = SetTitle(PeerGetObject(panels, call.old, call.obj.kind), call.new)
        /\ call.pc = "insert"
               => /\ Bearing(panels, call.old) = 0 /\ Bearing(panels, call.new) = 0
                  /\ PeerSize(panels) = PeerSize(call.before) - 1
        /\ (call.pc = "done" /\ call.at = "insert" /\ call.res # "ok")
               => /\ call.res = "Fault"
                  /\ Bearing(call.before, call.old) = 1
                  /\ Bearing(panels, call.old) = 0 /\ Bearing(panels, call.new) = 0
                  /\ PeerSize(panels) = PeerSize(call.before) - 1

\* the insertion has failed after the removal succeeded
C34_Witness ==
    /\ call.op = "rename" /\ call.pc = "done" /\ call.at = "insert" /\ call.res = "Fault"
    /\ PeerSize(call.before) = 1 /\ PeerSize(panels) = 0

(***************************************************************************)
(* Properties of Workspace.add against a peer that lags, under Spec.       *)
(***************************************************************************)

\* C35: through the RemoteProxy backend, when the add of the backend has
\* succeeded and the peer's listing shows the insertion after lag gets,
\* lag <= 20, so that get can find the name at the 21st attempt at the
\* latest, Workspace.add raises nothing, has made at most lag + 1 gets,
\* and returns the object submitted, under the name.
C35_AddAbsorbsLag ==
    (Constructed /\ backend = "rpc")
        => \A n \in Names, overwrite \in BOOLEAN, lag \in 0..Retries :
               \A o \in Args(n) :
                   LET b == LiveBackend_add(panels, link, removal, n, o, overwrite, lag = 0)
                       r == AddNow(n, o, overwrite, lag)
                   IN  (/\ b.res = "ok"
                        /\ LiveBackend_get(PeerListLast(b.panels, o.kind), link, n).res = "ok")
                           => /\ r.res = "ok"
                              /\ r.tries <= lag + 1
                              /\ r.obj = SetTitle(o, n)

(***************************************************************************)
(* Properties of the mode over the life of a workspace, under SpecLife.    *)
(***************************************************************************)

\* C36: in every step of a workspace's life the mode changes only from
\* standalone to live, and only in a step of resync() or connect() that
\* returns True; in live mode no step changes the mode or the active
\* backend.
C36_ModeMonotonic ==
    [][/\ mode' # mode
           => /\ mode = "standalone" /\ mode' = "live"
              /\ switch' \in {Call("resync", "true"), Call("connect", "true")}
       /\ mode = "live" => (mode' = "live" /\ backend' = backend)]_vars

\* a workspace that resync() took to live mode has served the proxy
\* property and holds an entry at the peer
C36_Witness ==
    /\ mode = "live" /\ backend = "rpc"
    /\ switch = Call("resync", "true")
    /\ call.op = "proxy"
    /\ PeerSize(panels) = MaxObjs

\* C37: through the RemoteProxy backend, when the add of the backend has
\* succeeded and Workspace.add ends with KeyError, its 21 gets having found
\* nothing, nothing is taken back: the peer holds what the backend's add
\* left there, the submitted object under the name included; and once the
\* peer's listing shows it, a repeated add of the name without overwrite
\* raises ValueError.
C37_AddNoRollback ==
    (Constructed /\ backend = "rpc")
        => \A n \in Names, overwrite \in BOOLEAN, lag \in Lags :
               \A o \in Args(n) :
                   LET b == LiveBackend_add(panels, link, removal, n, o, overwrite, lag = 0)
                       r == AddNow(n, o, overwrite, lag)
                       later == PeerIndexed(r.panels)
                   IN  (b.res = "ok" /\ r.res # "ok")
                           => /\ r.res = "NotFound"
                              /\ r.tries = Retries + 1
                              /\ PeerSize(r.panels) = PeerSize(b.panels)
                              /\ Bearing(r.panels, n) = Bearing(b.panels, n)
                              /\ \E i \in 1..Len(r.panels[o.kind]) :
                                     /\ r.panels[o.kind][i].title = n
                                     /\ r.panels[o.kind][i].data = o.data
                              /\ Workspace_add("rpc", objects, later, "up", removal, blob,
                                               n, o, FALSE, 0).res = "AlreadyExists"

\* an add has failed with KeyError on an empty peer, which holds the object
\* unlisted
C37_Witness ==
    /\ Constructed /\ backend = "rpc"
    /\ PeerSize(panels) = 1
    /\ ~AllListed(panels)
    /\ \E n \in Names : Bearing(panels, n) = 1 /\ ~LiveBackend_exists(panels, "up", n)

(***************************************************************************)
(* Further properties of save and load, under SpecPersist.                 *)
(***************************************************************************)

\* C38: on the local store, for every path, ending in ".h5" or not, a
\* load(path) that follows save(path) finds the file that was written and
\* succeeds.
C38_SaveThenLoad ==
    (Loaded /\ call.saved \in Paths /\ call.loaded = call.saved)
        => /\ call.res = "ok"
           /\ call.disk.path = call.loaded

\* C39: load on the local store merges: when it succeeds every entry whose
\* name is no group of the file is as it was, every group that bears the
\* tag of a signal or an image, or that has the datasets of one, is stored
\* under its name, in place of the entry that was there if there was one and
\* with no ValueError, and every other group is passed over, the entry of
\* its name, if any, as it was; and load through the RemoteProxy backend
\* asks the peer to load the one file with reset_all=False.
C39_LoadMerges ==
    /\ Loaded /\ call.disk # NoFile /\ call.disk.path = call.loaded
           => /\ call.res = "ok"
              /\ \A n \in DOMAIN call.before \ DOMAIN call.disk.groups :
                     n \in DOMAIN call.target /\ call.target[n] = call.before[n]
              /\ \A n \in DOMAIN call.disk.groups :
                     LET g == call.disk.groups[n]
                     IN  IF g.type \in {"SignalObj", "ImageObj"} \/ g.shape \in {"xy", "data"}
                         THEN /\ n \in DOMAIN call.target
                              /\ call.target[n].data = g.data
                              /\ call.target[n].kind =
                                     (IF g.type = "SignalObj" THEN "signal"
                                      ELSE IF g.type = "ImageObj" THEN "image"
                                      ELSE IF g.shape = "xy" THEN "signal" ELSE "image")
                         ELSE IF n \in DOMAIN call.before
                              THEN n \in DOMAIN call.target /\ call.target[n] = call.before[n]
                              ELSE n \notin DOMAIN call.target
              /\ DOMAIN call.target \subseteq DOMAIN call.before \cup DOMAIN call.disk.groups
    /\ (call.op = "persist" /\ call.pc = "asked" /\ call.loaded # "")
           => call.request = [method |-> "load_h5_workspace", files |-> <<call.loaded>>,
                              reset_all |-> "False"]

\* a store with an entry under each name has loaded a file with a group
\* that is replaced and a group that is passed over
C39_Witness ==
    /\ Loaded /\ call.res = "ok"
    /\ DOMAIN call.before = {"a", "b"}
    /\ DOMAIN call.disk.groups = {"a", "b"}
    /\ call.disk.groups["a"] = Untyped("data")
    /\ call.disk.groups["b"] = Untyped("none")
    /\ call.target["a"] # call.before["a"]
    /\ call.target["b"] = call.before["b"]

(***************************************************************************)
(* Properties of a peer without a removal primitive, under Spec.           *)
(***************************************************************************)

\* C40 as stated: through the RemoteProxy backend, the peer having no
\* removal primitive, rename(old, new) for an old that exists and add(n, o,
\* overwrite=True) for an n that exists raise NotImplementedError and leave
\* the peer's panels as they were.
C40_NoRemoval ==
    (Constructed /\ backend = "rpc" /\ removal = "none")
        => /\ \A old \in Names, new \in Names, listed \in BOOLEAN :
                  LET r == RenameNow(old, new, listed)
                  IN  Workspace_exists(old)
                          => r.res = "Unsupported" /\ r.panels = panels
           /\ \A n \in Names, lag \in Lags : \A o \in Args(n) :
                  LET r == AddNow(n, o, TRUE, lag)
                  IN  Workspace_exists(n)
                          => r.res = "Unsupported" /\ r.panels = panels

\* C40: through the RemoteProxy backend, the peer having no removal
\* primitive, rename(old, new) for an old that exists raises
\* NotImplementedError when new does not exist and ValueError when it does,
\* new = old included; add(n, o, overwrite=True) for an n that exists raises
\* NotImplementedError; and each leaves the peer's panels as they were.
C40_NoRemovalAmended ==
    (Constructed /\ backend = "rpc" /\ removal = "none")
        => /\ \A old \in Names, new \in Names, listed \in BOOLEAN :
                  LET r == RenameNow(old, new, listed)
                  IN  Workspace_exists(old)
                          => /\ r.res = (IF Workspace_exists(new) THEN "AlreadyExists"
                                         ELSE "Unsupported")
                             /\ r.panels = panels
           /\ \A n \in Names, lag \in Lags : \A o \in Args(n) :
                  LET r == AddNow(n, o, TRUE, lag)
                  IN  Workspace_exists(n)
                          => r.res = "Unsupported" /\ r.panels = panels

\* the peer without a removal primitive lists "a" and not "b", and the
\* rename of "a" to "b" is refused
C40_Witness ==
    /\ backend = "rpc" /\ removal = "none"
    /\ Workspace_exists("a") /\ ~Workspace_exists("b")
    /\ RenameNow("a", "b", TRUE).res = "Unsupported"
    /\ AddNow("a", [kind |-> "signal", title |-> "a", data |-> "q"], TRUE, 0).res = "Unsupported"

=============================================================================
